---------------------------- MODULE Spec2Model ----------------------------
(***************************************************************************)
(* The Force programming language: the sandbox (secure_force_demo.py,      *)
(* security_improvements_demo.py), the interpreter (force_compiler.py)     *)
(* with its collections, and the web server (force_web_server.py).         *)
(*                                                                         *)
(* A text is a TLA+ string; TLC evaluates Len, SubSeq and \o on strings,   *)
(* so the character at position i of s is SubSeq(s, i, i).                 *)
(***************************************************************************)
EXTENDS Integers, Sequences, FiniteSets, TLC

-----------------------------------------------------------------------------
(* Texts and characters *)

At(s, i) == SubSeq(s, i, i)

SetMax(S) == CHOOSE m \in S : \A n \in S : n <= m

SetMin(S) == CHOOSE m \in S : \A n \in S : m <= n

Min(a, b) == IF a <= b THEN a ELSE b

LowerLetters == "abcdefghijklmnopqrstuvwxyz"

UpperLetters == "ABCDEFGHIJKLMNOPQRSTUVWXYZ"

Digits == "0123456789"

Whitespace == " \t\n\r\f"

\* the set of the characters of the string cs
CharSet(cs) == {At(cs, i) : i \in 1..Len(cs)}

LowerSet == CharSet(LowerLetters)

UpperSet == CharSet(UpperLetters)

DigitSet == CharSet(Digits)

SpaceSet == CharSet(Whitespace)

WordSet == LowerSet \cup UpperSet \cup DigitSet \cup {"_"}

\* c occurs in the string cs
OneOf(c, cs) == \E i \in 1..Len(cs) : At(cs, i) = c

\* str.lower() on one character
Lower(c) ==
    IF c \in UpperSet
    THEN At(LowerLetters, CHOOSE i \in 1..Len(UpperLetters) : At(UpperLetters, i) = c)
    ELSE c

\* s repeated n times (Python's s * n)
RECURSIVE Repeat(_, _)
Repeat(s, n) ==
    IF n <= 0 THEN ""
    ELSE IF n % 2 = 0
         THEN LET h == Repeat(s, n \div 2) IN h \o h
         ELSE s \o Repeat(s, n - 1)

\* substring test: Python's  piece in s
Contains(s, piece) ==
    \E i \in 1..(Len(s) - Len(piece) + 1) : SubSeq(s, i, i + Len(piece) - 1) = piece

\* str.startswith / str.endswith
StartsWith(s, p) == Len(p) <= Len(s) /\ SubSeq(s, 1, Len(p)) = p

EndsWith(s, p) == Len(p) <= Len(s) /\ SubSeq(s, Len(s) - Len(p) + 1, Len(s)) = p

-----------------------------------------------------------------------------------------------------------------------------------------------------
(* Regular expressions (Python's re), as far as the patterns of the        *)
(* program use them.  A pattern is a sequence of items:                    *)
(*   Lit(s)              the literal text s                                *)
(*   Rep(cls, lo, hi)    lo..hi characters of the class cls, greedy;       *)
(*                       hi = -1 is unbounded                              *)
(*   RepLazy(cls, lo, hi) the same, non-greedy                             *)
(*   Open(g), Close(g)   the parentheses of capture group g                *)
(*   Ref(g)              the backreference \g                              *)
(*   Bol, Eol            ^ and $ under re.MULTILINE                        *)
(*   WordB               \b                                                *)
(* Character classes: "s" is \s, "w" is \w, "d" is \d, "ws" is [\w\s],     *)
(* "." is any character but a newline, "any" is . under re.DOTALL,         *)
(* "!xyz" is [^xyz] and "=xyz" is [xyz].                                   *)

Item(t, s, lo, hi, g) == [t |-> t, s |-> s, lo |-> lo, hi |-> hi, g |-> g]

Lit(s) == Item("lit", s, 0, 0, 0)

Rep(cls, lo, hi) == Item("rep", cls, lo, hi, 0)

RepLazy(cls, lo, hi) == Item("lazy", cls, lo, hi, 0)

Open(g) == Item("open", "", 0, 0, g)

Close(g) == Item("close", "", 0, 0, g)

Ref(g) == Item("ref", "", 0, 0, g)

Bol == Item("bol", "", 0, 0, 0)

Eol == Item("eol", "", 0, 0, 0)

WordB == Item("wb", "", 0, 0, 0)

InClass(c, cls) ==
    CASE cls = "s"   -> c \in SpaceSet
      [] cls = "d"   -> c \in DigitSet
      [] cls = "w"   -> c \in WordSet
      [] cls = "ws"  -> c \in WordSet \/ c \in SpaceSet
      [] cls = "."   -> c # "\n"
      [] cls = "any" -> TRUE
      [] OTHER       -> IF At(cls, 1) = "!" THEN ~OneOf(c, Tail(cls))
                                              ELSE OneOf(c, Tail(cls))

\* the literal lit stands at position pos of text
LitAt(text, pos, lit, icase) ==
    /\ pos + Len(lit) - 1 <= Len(text)
    /\ IF icase
       THEN \A j \in 1..Len(lit) : Lower(At(text, pos + j - 1)) = Lower(At(lit, j))
       ELSE SubSeq(text, pos, pos + Len(lit) - 1) = lit

\* the length of the longest run of cls characters that starts at pos
RunLen(text, pos, cls) ==
    IF \A i \in pos..Len(text) : InClass(At(text, i), cls)
    THEN Len(text) - pos + 1
    ELSE (CHOOSE i \in pos..Len(text) :
             /\ ~InClass(At(text, i), cls)
             /\ \A j \in pos..(i - 1) : InClass(At(text, j), cls)) - pos

\* at most hi, where hi = -1 is no limit
AtMost(run, hi) == IF hi >= 0 /\ hi < run THEN hi ELSE run

\* the most characters the repetition it may take at pos
RepTop(text, pos, it) == AtMost(RunLen(text, pos, it.s), it.hi)

\* the captures of a match: group g spans caps[g][1] .. caps[g][2] - 1
NoCaps == [g \in 1..4 |-> <<0, 0>>]

Group(text, caps, g) == SubSeq(text, caps[g][1], caps[g][2] - 1)

\* TRUE, once TLC has computed the value v: it makes TLC finish one step of a
\* computation before it starts the next
Done(v) == v = v

\* a loop "for i in lo..hi: st = Step(i, st)".  The range is taken in eight
\* parts, one after the other, so that the evaluation does not nest as deep
\* as the loop is long.
RECURSIVE Fold(_, _, _, _)
Fold(Step(_, _), lo, hi, st) ==
    IF lo > hi THEN st
    ELSE IF lo = hi THEN Step(lo, st)
    ELSE LET w == (hi - lo) \div 8 + 1
             s1 == Fold(Step, lo, Min(lo + w - 1, hi), st)
             s2 == Fold(Step, lo + w, Min(lo + 2 * w - 1, hi), s1)
             s3 == Fold(Step, lo + 2 * w, Min(lo + 3 * w - 1, hi), s2)
             s4 == Fold(Step, lo + 3 * w, Min(lo + 4 * w - 1, hi), s3)
             s5 == Fold(Step, lo + 4 * w, Min(lo + 5 * w - 1, hi), s4)
             s6 == Fold(Step, lo + 5 * w, Min(lo + 6 * w - 1, hi), s5)
             s7 == Fold(Step, lo + 6 * w, Min(lo + 7 * w - 1, hi), s6)
         IN  IF /\ Done(s1) /\ Done(s2) /\ Done(s3) /\ Done(s4)
                /\ Done(s5) /\ Done(s6) /\ Done(s7)
             THEN Fold(Step, lo + 7 * w, hi, s7)
             ELSE st

\* the sequences parts[lo..hi] one after the other
RECURSIVE Flatten(_, _, _)
Flatten(parts, lo, hi) ==
    IF lo > hi THEN <<>>
    ELSE IF lo = hi THEN parts[lo]
    ELSE LET mid == (lo + hi) \div 2
         IN  Flatten(parts, lo, mid) \o Flatten(parts, mid + 1, hi)

\* The backtracking matcher is in the state [pos, caps] between two items of
\* the pattern.  After a repetition that may take lo..top characters from the
\* state c it can be in these states, in the order it tries them: a greedy
\* repetition tries the most characters first, a non-greedy one the fewest.
GreedyStates(c, lo, top) ==
    [j \in 1..(top - lo + 1) |-> [pos |-> c.pos + top - j + 1, caps |-> c.caps]]

LazyStates(c, lo, top) ==
    [j \in 1..(top - lo + 1) |-> [pos |-> c.pos + lo + j - 1, caps |-> c.caps]]

\* the states the matcher can be in after the item it, from the state c, in
\* the order it tries them
StepItem(text, it, icase, c) ==
    CASE it.t = "lit" ->
           IF LitAt(text, c.pos, it.s, icase)
           THEN <<[pos |-> c.pos + Len(it.s), caps |-> c.caps]>> ELSE <<>>
      [] it.t = "rep" -> GreedyStates(c, it.lo, RepTop(text, c.pos, it))
      [] it.t = "lazy" -> LazyStates(c, it.lo, RepTop(text, c.pos, it))
      [] it.t = "open" ->
           <<[pos |-> c.pos, caps |-> [c.caps EXCEPT ![it.g] = <<c.pos, c.pos>>]]>>
      [] it.t = "close" ->
           <<[pos |-> c.pos,
              caps |-> [c.caps EXCEPT ![it.g] = <<c.caps[it.g][1], c.pos>>]]>>
      [] it.t = "ref" ->
           IF LitAt(text, c.pos, Group(text, c.caps, it.g), icase)
           THEN <<[pos |-> c.pos + c.caps[it.g][2] - c.caps[it.g][1], caps |-> c.caps]>>
           ELSE <<>>
      [] it.t = "bol" ->
           IF c.pos = 1 \/ At(text, c.pos - 1) = "\n" THEN <<c>> ELSE <<>>
      [] it.t = "eol" ->
           IF c.pos = Len(text) + 1 \/ At(text, c.pos) = "\n" THEN <<c>> ELSE <<>>
      [] it.t = "wb" ->
           IF (c.pos > 1 /\ At(text, c.pos - 1) \in WordSet)
                 # (c.pos <= Len(text) /\ At(text, c.pos) \in WordSet)
           THEN <<c>> ELSE <<>>

\* the states after the item it from the states cs, in the matcher's order
Advance(text, it, icase, cs) ==
    IF Len(cs) = 0 THEN <<>>
    ELSE Flatten([i \in 1..Len(cs) |-> StepItem(text, it, icase, cs[i])], 1, Len(cs))

\* the first item of pat that takes characters is a literal which does not
\* stand at pos: no match starts at pos
Hopeless(text, pat, icase, pos) ==
    \E k \in 1..Len(pat) :
        /\ pat[k].t = "lit"
        /\ \A j \in 1..(k - 1) : pat[j].t \in {"open", "bol", "wb"}
        /\ ~LitAt(text, pos, pat[k].s, icase)

\* the ways pat matches text from position pos on, as the states after the
\* last item, in the matcher's order: the first is the match
Matches(text, pat, icase, pos) ==
    IF Hopeless(text, pat, icase, pos) THEN <<>>
    ELSE Fold(LAMBDA k, cs : Advance(text, pat[k], icase, cs), 1, Len(pat),
              <<[pos |-> pos, caps |-> NoCaps]>>)

\* re.search(pat, text) finds a match
Search(pat, text, icase) ==
    \E pos \in 1..(Len(text) + 1) : Matches(text, pat, icase, pos) # <<>>

\* the scan of re.sub and re.finditer is in the state st at the start
\* position p: [next: the first position a match may start at, found: the
\* matches so far].  Each match is [from, to, caps]: the text from .. to - 1.
\* Its state after p, where ms are the ways the pattern matches from p on:
Found(p, st, ms) ==
    IF ms = <<>> THEN st
    ELSE [next |-> IF ms[1].pos > p THEN ms[1].pos ELSE p + 1,
          found |-> Append(st.found, [from |-> p, to |-> ms[1].pos, caps |-> ms[1].caps])]

FindAt(text, pat, icase, p, st) ==
    IF p < st.next THEN st ELSE Found(p, st, Matches(text, pat, icase, p))

\* the matches re.sub and re.finditer visit from position pos on: leftmost
\* first, not overlapping
FindAll(text, pat, pos, icase) ==
    Fold(LAMBDA p, st : FindAt(text, pat, icase, p, st), pos, Len(text) + 1,
         [next |-> pos, found |-> <<>>]).found

\* the texts parts[lo..hi] one after the other, sep between them
RECURSIVE JoinRange(_, _, _, _)
JoinRange(parts, sep, lo, hi) ==
    IF lo > hi THEN ""
    ELSE IF lo = hi THEN parts[lo]
    ELSE LET mid == (lo + hi) \div 2
         IN  JoinRange(parts, sep, lo, mid) \o sep \o JoinRange(parts, sep, mid + 1, hi)

\* sep.join(parts)
Join(sep, parts) == JoinRange(parts, sep, 1, Len(parts))

\* a replacement template is a sequence of parts: T(s) is the text s and
\* G(g) is the group reference \g
T(s) == [g |-> 0, s |-> s]

G(g) == [g |-> g, s |-> ""]

\* the replacement the template stands for at a match with captures caps
Expand(text, caps, tpl) ==
    Join("", [i \in 1..Len(tpl) |->
                IF tpl[i].g = 0 THEN tpl[i].s ELSE Group(text, caps, tpl[i].g)])

\* text with each match ms[i] replaced by the template: the text before the
\* first match, then each replacement with the text up to the next match
Splice(text, ms, tpl) ==
    IF ms = <<>> THEN text
    ELSE SubSeq(text, 1, ms[1].from - 1)
         \o Join("", [i \in 1..Len(ms) |->
                        Expand(text, ms[i].caps, tpl)
                        \o SubSeq(text, ms[i].to,
                                  IF i = Len(ms) THEN Len(text) ELSE ms[i + 1].from - 1)])

\* the value of the operator Op on v, once v has been computed
Then(v, Op(_)) == IF Done(v) THEN Op(v) ELSE Op(v)

\* re.sub(pat, tpl, text)
Sub(pat, tpl, text) ==
    Then(FindAll(text, pat, 1, FALSE), LAMBDA ms : Splice(text, ms, tpl))

-----
(* Configuration: ForceSecurityConfig (secure_force_demo.py) and           *)
(* ForceConfig (security_improvements_demo.py)                             *)

ForceSecurityConfig_MAX_CODE_SIZE == 10000

ForceSecurityConfig_MAX_EXECUTION_TIME == 5

ForceConfig_MAX_CODE_SIZE == 10000

ForceConfig_MAX_EXECUTION_TIME == 5

\* ForceSecurityConfig.FORBIDDEN_PATTERNS
ForceSecurityConfig_FORBIDDEN_PATTERNS ==
    << <<Lit("import"), Rep("s", 1, -1), Lit("os")>>,
       <<Lit("import"), Rep("s", 1, -1), Lit("sys")>>,
       <<Lit("import"), Rep("s", 1, -1), Lit("subprocess")>>,
       <<Lit("__import__")>>,
       <<Lit("exec"), Rep("s", 0, -1), Lit("(")>>,
       <<Lit("eval"), Rep("s", 0, -1), Lit("(")>>,
       <<Lit("compile"), Rep("s", 0, -1), Lit("(")>>,
       <<Lit("open"), Rep("s", 0, -1), Lit("(")>>,
       <<Lit("file"), Rep("s", 0, -1), Lit("(")>>,
       <<Lit("input"), Rep("s", 0, -1), Lit("(")>> >>

\* ForceConfig.FORBIDDEN_PATTERNS
ForceConfig_FORBIDDEN_PATTERNS ==
    << <<Lit("import"), Rep("s", 1, -1), Lit("os")>>,
       <<Lit("import"), Rep("s", 1, -1), Lit("sys")>>,
       <<Lit("import"), Rep("s", 1, -1), Lit("subprocess")>>,
       <<Lit("__import__")>>,
       <<Lit("exec"), Rep("s", 0, -1), Lit("(")>>,
       <<Lit("eval"), Rep("s", 0, -1), Lit("(")>>,
       <<Lit("compile"), Rep("s", 0, -1), Lit("(")>>,
       <<Lit("open"), Rep("s", 0, -1), Lit("(")>>,
       <<Lit("file"), Rep("s", 0, -1), Lit("(")>> >>

\* suspicious_patterns of InputValidator.validate_force_code
suspicious_patterns ==
    << <<Rep("ws", 0, -1), Lit("*"), Rep("s", 0, -1), Rep("d", 4, -1)>>,
       <<Lit("while"), Rep("s", 1, -1), Lit("True"), Rep("s", 0, -1), Lit(":")>>,
       <<Lit("["), Rep("s", 0, -1), Rep("d", 1, -1), Rep("s", 0, -1), Lit("]"),
         Rep("s", 0, -1), Lit("*"), Rep("s", 0, -1), Rep("d", 3, -1)>> >>

\* the nesting limits written into the two validators
InputValidator_MAX_DEPTH == 15

SecurityValidator_MAX_DEPTH == 10

-----------------------------------------------------------------------------
(* Static validation *)

\* the brace-counting loop of validate_force_code: brace_depth after the
\* character at position j is the number of opening braces up to j less the
\* number of closing ones, and max_depth, which starts at 0 and is raised only
\* at an opening brace, is the largest brace_depth after an opening brace
BraceDepthAfter(code, j) ==
    Cardinality({i \in 1..j : At(code, i) = "{"})
        - Cardinality({i \in 1..j : At(code, i) = "}"})

ValidatorMaxDepth(code) ==
    SetMax({0} \cup {BraceDepthAfter(code, j) : j \in {i \in 1..Len(code) : At(code, i) = "{"}})

\* what a validator does with a text: the exception it raises ("none" when it
\* returns True), why, and the checks it made on the text, in order
Verdict(exc, why, checks) == [exc |-> exc, why |-> why, checks |-> checks]

\* InputValidator.validate_force_code
InputValidator_validate_force_code(code) ==
    IF Len(code) > ForceSecurityConfig_MAX_CODE_SIZE
    THEN Verdict("ValueError", "size", <<"size">>)
    ELSE IF \E i \in 1..Len(ForceSecurityConfig_FORBIDDEN_PATTERNS) :
               Search(ForceSecurityConfig_FORBIDDEN_PATTERNS[i], code, TRUE)
    THEN Verdict("SecurityError", "forbidden", <<"size", "forbidden">>)
    ELSE IF ValidatorMaxDepth(code) > InputValidator_MAX_DEPTH
    THEN Verdict("ValueError", "nesting", <<"size", "forbidden", "nesting">>)
    ELSE IF \E i \in 1..Len(suspicious_patterns) :
               Search(suspicious_patterns[i], code, FALSE)
    THEN Verdict("SecurityError", "suspicious",
                 <<"size", "forbidden", "nesting", "suspicious">>)
    ELSE Verdict("none", "none", <<"size", "forbidden", "nesting", "suspicious">>)

\* SecurityValidator.validate_force_code
SecurityValidator_validate_force_code(code) ==
    IF Len(code) > ForceConfig_MAX_CODE_SIZE
    THEN Verdict("ValueError", "size", <<"size">>)
    ELSE IF \E i \in 1..Len(ForceConfig_FORBIDDEN_PATTERNS) :
               Search(ForceConfig_FORBIDDEN_PATTERNS[i], code, TRUE)
    THEN Verdict("SecurityError", "forbidden", <<"size", "forbidden">>)
    ELSE IF ValidatorMaxDepth(code) > SecurityValidator_MAX_DEPTH
    THEN Verdict("ValueError", "nesting", <<"size", "forbidden", "nesting">>)
    ELSE Verdict("none", "none", <<"size", "forbidden", "nesting">>)


-----------------------------------------------------------------------------
(* ForceParser (force_compiler.py): the translation of Force to Python *)

\* ForceParser.keyword_map, in the order of the dict
keyword_map ==
    << <<"holocron", "force_var">>, <<"kyber", "force_const">>,
       <<"sense", "if">>, <<"meditate", "while">>, <<"ability", "def">>,
       <<"respond", "print">>, <<"sense_input", "input">>,
       <<"squadron", "list">>, <<"datapad", "dict">>, <<"order", "class">>,
       <<"initiate", "__init__">>, <<"try_use_force", "try">>,
       <<"catch_disturbance", "except">>, <<"finally_balance", "finally">>,
       <<"force_projection", "async def">>, <<"await", "await">>,
       <<"transmission", "import">>, <<"from", "from">>,
       <<"force_calculate", "force_calculate">>, <<"midichlorians", "force_random">>,
       <<"lightsaber_distance", "force_distance">>, <<"rebellion", "set">>,
       <<"hyperdrive", "force_generator">>, <<"tuple_coordinates", "tuple">>,
       <<"stack_tower", "force_stack">>, <<"queue_line", "force_queue">>,
       <<"hologram_text", "force_format">>, <<"protocol_droid", "force_text">>,
       <<"regex_pattern", "force_regex">>,
       <<"holocron_archive", "force_read_file">>,
       <<"imperial_database", "force_write_file">>, <<"data_stream", "force_json">>,
       <<"jedi_mind_trick", "force_ternary">>, <<"jedi_council", "force_switch">>,
       <<"force_lightning", "lambda">>, <<"galactic_time", "force_datetime">>,
       <<"hyperspace_comm", "force_http">>, <<"force_encrypt", "force_encryption">>,
       <<"force_hash", "force_hash_func">> >>

\* a rewriting re.sub(pat, tpl, code)
Rule(pat, tpl) == [pat |-> pat, tpl |-> tpl]

\* the rewritings applied to code one after the other
Apply(rules, code) ==
    Fold(LAMBDA i, c : Sub(rules[i].pat, rules[i].tpl, c), 1, Len(rules), code)

\* ForceParser.preprocess: the comments are removed
preprocess(code) ==
    Apply(<<Rule(<<Lit("//"), Rep(".", 0, -1), Eol>>, <<>>),
            Rule(<<Lit("/*"), RepLazy("any", 0, -1), Lit("*/")>>, <<>>)>>, code)

\* the two train (...) { rewritings of translate_to_python
TrainLoops(code) ==
    LET S == Rep("s", 0, -1)
    IN  Apply(
          <<Rule(<<Lit("train"), S, Lit("("), S, Lit("holocron"), Rep("s", 1, -1),
                   Open(1), Rep("w", 1, -1), Close(1), S, Lit("="), S,
                   Open(2), Rep("d", 1, -1), Close(2), S, Lit(";"), S,
                   Ref(1), S, Lit("<"), S,
                   Open(3), Rep("d", 1, -1), Close(3), S, Lit(";"), S,
                   Ref(1), S, Lit("="), S, Ref(1), S, Lit("+"), S,
                   Open(4), Rep("d", 1, -1), Close(4), S, Lit(")"), S, Lit("{")>>,
                 <<T("for "), G(1), T(" in range("), G(2), T(", "), G(3), T(", "),
                   G(4), T("):")>>),
            Rule(<<Lit("train"), S, Lit("("), S, Lit("holocron"), Rep("s", 1, -1),
                   Open(1), Rep("w", 1, -1), Close(1), S, Lit("="), S,
                   Open(2), Rep("d", 1, -1), Close(2), S, Lit(";"), S,
                   Ref(1), S, Lit("<"), S, Lit("len("),
                   Open(3), Rep("!)", 1, -1), Close(3), Lit(")"), S, Lit(";"), S,
                   Ref(1), S, Lit("="), S, Ref(1), S, Lit("+"), S,
                   Open(4), Rep("d", 1, -1), Close(4), S, Lit(")"), S, Lit("{")>>,
                 <<T("for "), G(1), T(" in range("), G(2), T(", len("), G(3),
                   T("), "), G(4), T("):")>>)>>, code)

\* the keyword mappings applied one after the other, in the order of the dict
ApplyKeywords(code) ==
    Apply([i \in 1..Len(keyword_map) |->
             Rule(<<WordB, Lit(keyword_map[i][1]), WordB>>, <<T(keyword_map[i][2])>>)],
          code)

\* the rewritings of translate_to_python between the keyword mappings and
\* the brace conversion
Fixups(code) ==
    LET S == Rep("s", 0, -1)
    IN  Apply(
          <<Rule(<<Open(1), Rep("s", 1, -1), Close(1), Open(2), Lit("__init__"), S,
                   Lit("("), Rep("!)", 0, -1), Lit(")"), Close(2)>>,
                 <<G(1), T("def "), G(2)>>),
            Rule(<<Bol, Open(1), Rep("s", 1, -1), Close(1), Open(2), Rep("w", 1, -1),
                   S, Lit("("), Rep("!)", 0, -1), Lit(")"), Close(2), S, Lit(":"),
                   Eol>>,
                 <<G(1), T("def "), G(2), T(":")>>),
            Rule(<<Lit("list["), Open(1), RepLazy(".", 0, -1), Close(1), Lit("]")>>,
                 <<T("["), G(1), T("]")>>),
            Rule(<<Lit("squadron["), Open(1), RepLazy(".", 0, -1), Close(1), Lit("]")>>,
                 <<T("["), G(1), T("]")>>),
            Rule(<<Lit("dict"), S, Lit(":"), S, Eol>>, <<T("dict(")>>),
            Rule(<<Lit("set["), Open(1), RepLazy(".", 0, -1), Close(1), Lit("]")>>,
                 <<T("{"), G(1), T("}")>>),
            \* replace_var and replace_const
            Rule(<<Lit("force_var"), Rep("s", 1, -1), Open(1), Rep("w", 1, -1),
                   Close(1), S, Lit("="), S, Open(2), Rep(".", 1, -1), Close(2)>>,
                 <<G(1), T(" = "), G(2)>>),
            Rule(<<Lit("force_const"), Rep("s", 1, -1), Open(1), Rep("w", 1, -1),
                   Close(1), S, Lit("="), S, Open(2), Rep(".", 1, -1), Close(2)>>,
                 <<G(1), T(" = "), G(2)>>),
            Rule(<<Lit("print"), Rep("s", 1, -1), Open(1), RepLazy(".", 1, -1),
                   Close(1), Eol>>, <<T("print("), G(1), T(")")>>),
            Rule(<<Lit(".train"), S, Lit("(")>>, <<T(".train(")>>)>>, code)

\* str.strip()
Strip(s) ==
    IF \A i \in 1..Len(s) : At(s, i) \in SpaceSet THEN ""
    ELSE LET a == CHOOSE i \in 1..Len(s) :
                     /\ At(s, i) \notin SpaceSet
                     /\ \A j \in 1..(i - 1) : At(s, j) \in SpaceSet
             b == CHOOSE i \in 1..Len(s) :
                     /\ At(s, i) \notin SpaceSet
                     /\ \A j \in (i + 1)..Len(s) : At(s, j) \in SpaceSet
         IN  SubSeq(s, a, b)

\* str.strip('"\''): the quotes at both ends are removed
StripQuotes(s) ==
    IF \A i \in 1..Len(s) : At(s, i) \in {"\"", "'"} THEN ""
    ELSE LET a == CHOOSE i \in 1..Len(s) :
                     /\ At(s, i) \notin {"\"", "'"}
                     /\ \A j \in 1..(i - 1) : At(s, j) \in {"\"", "'"}
             b == CHOOSE i \in 1..Len(s) :
                     /\ At(s, i) \notin {"\"", "'"}
                     /\ \A j \in (i + 1)..Len(s) : At(s, j) \in {"\"", "'"}
         IN  SubSeq(s, a, b)

\* args.split(','): part k lies between the comma k - 1 and the comma k
SplitCommas(args) ==
    LET cs == {i \in 1..Len(args) : At(args, i) = ","}
        c(k) == IF k = 0 THEN 0
                ELSE IF k > Cardinality(cs) THEN Len(args) + 1
                ELSE CHOOSE i \in cs : Cardinality({j \in cs : j < i}) = k - 1
    IN  [k \in 1..(Cardinality(cs) + 1) |-> SubSeq(args, c(k - 1) + 1, c(k) - 1)]

\* op_map of ForceParser._handle_calculate
op_map ==
    <<<<"add", "+">>, <<"subtract", "-">>, <<"multiply", "*">>, <<"divide", "/">>,
      <<"power", "**">>, <<"modulo", "%">> >>

\* the replacement for a mapped operation on the argument list arg_list
Calculation(operation, args, arg_list) ==
    IF (\E i \in 1..Len(op_map) : op_map[i][1] = operation) /\ Len(arg_list) = 2
    THEN "(" \o Strip(arg_list[1]) \o " "
         \o op_map[CHOOSE i \in 1..Len(op_map) : op_map[i][1] = operation][2]
         \o " " \o Strip(arg_list[2]) \o ")"
    ELSE "force_math_" \o operation \o "(" \o args \o ")"

\* ForceParser._handle_calculate on a match with the groups group1, group2
handle_calculate(group1, group2) ==
    Calculation(StripQuotes(Strip(group1)), Strip(group2), SplitCommas(Strip(group2)))

\* text with each match ms[i] of the force_calculate pattern replaced by
\* what _handle_calculate returns for it
SpliceCalculate(text, ms) ==
    IF ms = <<>> THEN text
    ELSE SubSeq(text, 1, ms[1].from - 1)
         \o Join("", [i \in 1..Len(ms) |->
                        handle_calculate(Group(text, ms[i].caps, 1),
                                         Group(text, ms[i].caps, 2))
                        \o SubSeq(text, ms[i].to,
                                  IF i = Len(ms) THEN Len(text) ELSE ms[i + 1].from - 1)])

\* re.sub(r'force_calculate\s*\(\s*([^,]+),\s*([^)]+)\)', self._handle_calculate, code)
CalculateSub(code) ==
    Then(FindAll(code,
                 <<Lit("force_calculate"), Rep("s", 0, -1), Lit("("), Rep("s", 0, -1),
                   Open(1), Rep("!,", 1, -1), Close(1), Lit(","), Rep("s", 0, -1),
                   Open(2), Rep("!)", 1, -1), Close(2), Lit(")")>>, 1, FALSE),
         LAMBDA ms : SpliceCalculate(code, ms))

\* the rewriting of (\w+)\[([^\]]+)\], placed after the specific patterns
ArrayAccess(code) ==
    Apply(<<Rule(<<Open(1), Rep("w", 1, -1), Close(1), Lit("["),
                   Open(2), Rep("!]", 1, -1), Close(2), Lit("]")>>,
                 <<G(1), T("["), G(2), T("]")>>)>>, code)

\* the special patterns before force_calculate(...)
FirstPatterns(code) ==
    LET S == Rep("s", 0, -1)
    IN  Apply(
          <<Rule(<<Lit("new "), Open(1), Rep("w", 1, -1), Close(1), Lit("(")>>,
                 <<G(1), T("(")>>),
            Rule(<<Lit("squadron["), Open(1), RepLazy(".", 0, -1), Close(1), Lit("]")>>,
                 <<T("["), G(1), T("]")>>),
            Rule(<<Lit("rebellion"), S, Lit("["), Open(1), RepLazy(".", 0, -1),
                   Close(1), Lit("]")>>, <<T("{"), G(1), T("}")>>),
            Rule(<<Lit("jedi_mind_trick"), S, Lit("("), S,
                   Open(1), Rep("!,", 1, -1), Close(1), Lit(","), S,
                   Open(2), Rep("!,", 1, -1), Close(2), Lit(","), S,
                   Open(3), Rep("!)", 1, -1), Close(3), Lit(")")>>,
                 <<T("("), G(2), T(" if "), G(1), T(" else "), G(3), T(")")>>)>>, code)

\* ForceParser.special_patterns in their order, without the two whose
\* replacement is a function of its own on text no program here contains
\* (datapad {...}, hologram_text(...))
SpecialPatterns(code) ==
    Then(Then(FirstPatterns(code), CalculateSub), ArrayAccess)

\* str.count(c) for one character
Count(s, c) == Cardinality({i \in 1..Len(s) : At(s, i) = c})

\* str.split('\n'): line k lies between the newline k - 1 and the newline k
SplitLines(code) ==
    LET nls == {i \in 1..Len(code) : At(code, i) = "\n"}
        nl(k) == IF k = 0 THEN 0
                 ELSE IF k > Cardinality(nls) THEN Len(code) + 1
                 ELSE CHOOSE i \in nls : Cardinality({j \in nls : j < i}) = k - 1
    IN  [k \in 1..(Cardinality(nls) + 1) |-> SubSeq(code, nl(k - 1) + 1, nl(k) - 1)]

\* '\n'.join(lines)
JoinLines(lines) == Join("\n", lines)

\* the stripped line looks like a one-line dictionary literal
IsDictLiteral(stripped) ==
    /\ Contains(stripped, "=") /\ Contains(stripped, "{") /\ Contains(stripped, "}")
    /\ Count(stripped, "{") = Count(stripped, "}")
    /\ EndsWith(stripped, "}")

\* the first loop of convert_braces_to_indentation on one line: an opening
\* brace at the end of the line becomes a colon, but not in a line that looks
\* like a one-line dictionary literal
OpenBraceToColon(line) ==
    IF IsDictLiteral(Strip(line)) THEN line
    ELSE Sub(<<Rep("s", 0, -1), Lit("{"), Rep("s", 0, -1), Eol>>, <<T(":")>>, line)

\* One pass of the second loop of convert_braces_to_indentation, on a line
\* with indent_level as it is before the line, gives [out: the line appended
\* to result_lines, if any, level: the indent_level the line is written
\* with, next: indent_level after the line].
\* The line stripped is written at the level indent_level:
Written(stripped, indent_level) ==
    [out |-> IF stripped # "" THEN <<Repeat("    ", indent_level) \o stripped>> ELSE <<>>,
     level |-> indent_level,
     next |-> IF EndsWith(stripped, ":") THEN indent_level + 1 ELSE indent_level]

\* the line ends with closing braces that close blocks
ClosesBlocks(stripped) ==
    /\ EndsWith(stripped, "}")
    /\ ~(Contains(stripped, "{") /\ Count(stripped, "{") >= Count(stripped, "}"))

\* max(0, indent_level - count)
Dedent(indent_level, count) ==
    IF indent_level - count < 0 THEN 0 ELSE indent_level - count

\* the pass on the line whose stripped text is stripped
IndentStripped(line, stripped, indent_level) ==
    IF stripped = "}"
    THEN [out |-> <<>>, level |-> indent_level, next |-> Dedent(indent_level, 1)]
    ELSE IF stripped = ""
    THEN [out |-> <<>>, level |-> indent_level, next |-> indent_level]
    ELSE IF StartsWith(stripped, "else:")
    THEN [out |-> <<Repeat("    ", indent_level - 1) \o stripped>>,
          level |-> indent_level, next |-> indent_level]
    ELSE IF ClosesBlocks(stripped)
    THEN Written(Strip(Sub(<<Rep("s", 0, -1), Rep("=}", 1, -1), Rep("s", 0, -1), Eol>>,
                           <<>>, line)),
                 Dedent(indent_level, Count(stripped, "}")))
    ELSE Written(stripped, indent_level)

IndentLine(line, indent_level) == IndentStripped(line, Strip(line), indent_level)

\* the state of the second loop of convert_braces_to_indentation:
\* [indent_level, top: the largest indent_level so far, out: result_lines];
\* its state after a pass whose record is l
AfterLine(l, st) ==
    [indent_level |-> l.next,
     top |-> IF l.next > st.top THEN l.next ELSE st.top,
     out |-> st.out \o l.out]

IndentStep(line, st) == AfterLine(IndentLine(line, st.indent_level), st)

\* "} else {" becomes an else: on a line of its own
ElseOnOwnLine(code) ==
    Sub(<<Rep("s", 0, -1), Lit("}"), Rep("s", 0, -1), Lit("else"),
          Rep("s", 0, -1), Lit("{"), Rep("s", 0, -1), Eol>>,
        <<T("\nelse:")>>, code)

\* the first loop of convert_braces_to_indentation, and the join after it
FirstLoop(lines) == JoinLines([i \in 1..Len(lines) |-> OpenBraceToColon(lines[i])])

\* the second loop
SecondLoop(lines) ==
    Fold(LAMBDA i, st : IndentStep(lines[i], st), 1, Len(lines),
         [indent_level |-> 0, top |-> 0, out |-> <<>>])

\* ForceParser.convert_braces_to_indentation, as the record of its second loop
ConvertBraces(code) ==
    Then(Then(Then(Then(ElseOnOwnLine(code), SplitLines), FirstLoop), SplitLines),
         SecondLoop)

convert_braces_to_indentation(code) == JoinLines(ConvertBraces(code).out)

\* the text translate_to_python hands to convert_braces_to_indentation
BeforeBraces(force_code) ==
    Then(Then(Then(Then(preprocess(force_code), TrainLoops), SpecialPatterns),
              ApplyKeywords), Fixups)

\* ForceParser.translate_to_python
translate_to_python(force_code) ==
    Then(BeforeBraces(force_code), convert_braces_to_indentation)

\* the largest indent_level the translator reaches on force_code
TranslatorMaxIndent(force_code) ==
    Then(BeforeBraces(force_code), ConvertBraces).top


-----------------------------------------------------------------------------
(* ForceRuntime.globals and the restricted environments built from it *)

\* the names ForceRuntime.__init__ puts into self.globals
RuntimeGlobals ==
    {"force_power", "force_random", "force_distance", "force_math_sqrt",
     "force_math_abs", "force_math_round", "force_math_max", "force_math_min",
     "force_math_sum", "force_format", "force_text", "force_regex",
     "force_read_file", "force_write_file", "force_generator", "force_stack",
     "force_queue", "force_json", "force_ternary", "force_switch",
     "force_datetime", "force_http", "force_encryption", "force_hash_func"}

\* ForceSecurityConfig.SAFE_BUILTINS
ForceSecurityConfig_SAFE_BUILTINS ==
    {"abs", "bool", "dict", "float", "int", "len", "list", "max", "min", "print",
     "range", "str", "sum", "tuple", "zip", "round", "sorted", "enumerate"}

\* ForceConfig.SAFE_BUILTINS
ForceConfig_SAFE_BUILTINS ==
    {"abs", "bool", "dict", "float", "int", "len", "list", "max", "min", "print",
     "range", "str", "sum", "tuple", "zip"}

\* SecureForceInterpreter.create_safe_environment: the names of safe_globals
\* and the names of its __builtins__
create_safe_environment(runtime_globals) ==
    [builtins |-> ForceSecurityConfig_SAFE_BUILTINS,
     names |-> {name \in runtime_globals :
                  /\ StartsWith(name, "force_")
                  /\ ~\E danger \in {"file", "read", "write", "http", "system"} :
                        Contains(name, danger)}]

\* ForceSecurityEnhancer.create_safe_globals.  __builtins__ is the builtins
\* module in the module run as __main__ and that module's dict in an imported
\* module, where hasattr(__builtins__, name) is False for every name
create_safe_globals(runtime_globals, builtins_is_module) ==
    [builtins |-> IF builtins_is_module THEN ForceConfig_SAFE_BUILTINS ELSE {},
     names |-> {name \in runtime_globals :
                  /\ StartsWith(name, "force_")
                  /\ ~EndsWith(name, "_file")
                  /\ ~\E dangerous \in {"file", "system", "import", "exec"} :
                        Contains(name, dangerous)}]

-----------------------------------------------------------------------------
(* Output containment *)

\* the limit written into secure_execute and sanitize_output
MAX_OUTPUT_SIZE == 5000

TruncationMarker == "\n... (output truncated for safety)"

\* output[:5000] with the marker, for an output of more than 5000 characters
Truncated(output) ==
    IF Len(output) > MAX_OUTPUT_SIZE
    THEN SubSeq(output, 1, MAX_OUTPUT_SIZE) \o TruncationMarker
    ELSE output

\* the output secure_execute returns for the captured output
SecureExecuteOutput(output) == Truncated(output)

\* SecurityValidator.sanitize_output
sanitize_output(output) ==
    Truncated(Sub(<<Lit("<"), Rep("!>", 0, -1), Lit(">")>>, <<>>, output))


-----------------------------------------------------------------------------
(* Source texts submitted to the sandbox *)

\* the first test case of test_security_improvements
SrcHello == "respond \"Hello Galaxy\""

SrcImportOs == "import os; respond os.getcwd()"

SrcTransmission == "transmission sys; respond sys.version"

SrcArchive == "holocron data = holocron_archive(\"/etc/passwd\")"

SrcDatabase == "holocron done = imperial_database(\"/srv/app/settings.json\", \"{}\")"

SrcHyperspace == "respond hyperspace_comm(\"GET\", \"localhost:8000\")"

SrcDataStream == "respond data_stream(\"load\", \"/srv/app/settings.json\")"

SrcEval == "respond eval(\"1 + 1\")"

SrcDivZero == "respond 1 / 0"

SrcLoop == "meditate 1 == 1 {\n    holocron x = 1\n}"

SrcTryLoop ==
    "try_use_force {\n    meditate 1 == 1 {\n        holocron x = 1\n    }\n}\n"
    \o "catch_disturbance {\n    respond \"caught\"\n}\nrespond \"done\""

SrcTryLoopTwice ==
    "try_use_force {\n    meditate 1 == 1 {\n        holocron x = 1\n    }\n}\n"
    \o "catch_disturbance {\n    respond \"caught\"\n}\n"
    \o "meditate 1 == 1 {\n    holocron y = 2\n}"

\* more than MAX_OUTPUT_SIZE characters of output
SrcFlood == "respond \"x\" * 77 * 78"

\* six tags of 1001 characters each
SrcTags == "respond (\"<\" + \"b\" * 999 + \">\") * 6"

SrcMarker == "respond \"a\\n... (output truncated for safety)\\nb\""

SrcTooLarge == Repeat("x", ForceSecurityConfig_MAX_CODE_SIZE + 1)

\* n blocks, each inside the one before
Nest(n) == Repeat("a {\n", n) \o Repeat("}\n", n)

\* closing braces with no block open, then n blocks, each inside the one before
Unmatched(closing, n) == Repeat("}\n", closing) \o Repeat("a {\n", n)

SrcNest11 == Nest(SecurityValidator_MAX_DEPTH + 1)

SrcNest16 == Nest(InputValidator_MAX_DEPTH + 1)

SrcUnmatched12 == Unmatched(2, SecurityValidator_MAX_DEPTH + 2)

SrcUnmatched17 == Unmatched(2, InputValidator_MAX_DEPTH + 2)

\* What the Python interpreter does with the translation of a source text in
\* a restricted environment: whether compile() accepts it, and the statements
\* exec() runs, in order.  A statement prints a text, calls a name of the
\* environment, raises an exception, or loops without end; guarded statements
\* stand in a try block whose bare except handler is the statement after it.
Statement(op, arg, guarded) == [op |-> op, arg |-> arg, guarded |-> guarded]

Program(code, compiles, run) == [code |-> code, compiles |-> compiles, run |-> run]

Programs ==
    {Program(SrcHello, TRUE, <<Statement("print", "Hello Galaxy\n", FALSE)>>),
     Program(SrcImportOs, TRUE, <<Statement("raise", "ImportError", FALSE)>>),
     Program(SrcTransmission, TRUE, <<Statement("raise", "ImportError", FALSE)>>),
     Program(SrcArchive, TRUE, <<Statement("call", "force_read_file", FALSE)>>),
     Program(SrcDatabase, TRUE, <<Statement("call", "force_write_file", FALSE)>>),
     Program(SrcHyperspace, TRUE, <<Statement("call", "force_http", FALSE),
                                    Statement("print", "{'error': ''}\n", FALSE)>>),
     Program(SrcDataStream, TRUE, <<Statement("call", "force_json", FALSE),
                                    Statement("print", "{'key': 'value'}\n", FALSE)>>),
     Program(SrcEval, TRUE, <<Statement("raise", "NameError", FALSE)>>),
     Program(SrcDivZero, TRUE, <<Statement("raise", "ZeroDivisionError", FALSE)>>),
     Program(SrcLoop, TRUE, <<Statement("loop", "", FALSE)>>),
     Program(SrcTryLoop, TRUE, <<Statement("loop", "", TRUE),
                                 Statement("print", "caught\n", FALSE),
                                 Statement("print", "done\n", FALSE)>>),
     Program(SrcTryLoopTwice, TRUE, <<Statement("loop", "", TRUE),
                                      Statement("print", "caught\n", FALSE),
                                      Statement("loop", "", FALSE)>>),
     Program(SrcFlood, TRUE, <<Statement("print", Repeat("x", 77 * 78) \o "\n", FALSE)>>),
     Program(SrcTags, TRUE,
             <<Statement("print", Repeat("<" \o Repeat("b", 999) \o ">", 6) \o "\n",
                         FALSE)>>),
     Program(SrcMarker, TRUE,
             <<Statement("print", "a\n... (output truncated for safety)\nb\n", FALSE)>>),
     Program(SrcTooLarge, TRUE, <<Statement("raise", "NameError", FALSE)>>),
     Program(SrcNest11, FALSE, <<>>),
     Program(SrcNest16, FALSE, <<>>),
     Program(SrcUnmatched12, FALSE, <<>>),
     Program(SrcUnmatched17, FALSE, <<>>)}


-----------------------------------------------------------------------------
(* The Python interpreter on the translated code: compile() and exec() of  *)
(* ForceRuntime.run_code, for the statements and expressions the           *)
(* translations of the program texts below are made of                     *)

\* A value is an integer, a string, a list, a function made by lambda (s is
\* its body) or by def (its body is the lines n .. m), or None; True and
\* False are the integers 1 and 0
Value(t, n, m, s, items) == [t |-> t, n |-> n, m |-> m, s |-> s, items |-> items]

IntValue(n) == Value("int", n, 0, "", <<>>)

StrValue(s) == Value("str", 0, 0, s, <<>>)

ListValue(items) == Value("list", 0, 0, "", items)

LambdaValue(body) == Value("lambda", 0, 0, body, <<>>)

DefValue(lo, hi) == Value("def", lo, hi, "", <<>>)

NoneValue == Value("None", 0, 0, "", <<>>)

\* the characters of the token that starts at pos: a number, a name, a
\* string literal with its quotes, ** or one character
TokenLen(text, pos) ==
    IF At(text, pos) \in DigitSet THEN RunLen(text, pos, "d")
    ELSE IF At(text, pos) \in WordSet THEN RunLen(text, pos, "w")
    ELSE IF At(text, pos) = "\"" THEN RunLen(text, pos + 1, "!\"") + 2
    ELSE IF At(text, pos) = "'" THEN RunLen(text, pos + 1, "!'") + 2
    ELSE IF LitAt(text, pos, "**", FALSE) THEN 2
    ELSE 1

\* the tokens of text from pos on, added to the tokens toks
RECURSIVE Tokens(_, _, _)
Tokens(text, pos, toks) ==
    IF pos > Len(text) THEN toks
    ELSE IF At(text, pos) \in SpaceSet THEN Tokens(text, pos + 1, toks)
    ELSE Tokens(text, pos + TokenLen(text, pos),
                Append(toks, SubSeq(text, pos, Min(Len(text), pos + TokenLen(text, pos) - 1))))

\* the token at index p, "" after the last
Tok(toks, p) == IF p >= 1 /\ p <= Len(toks) THEN toks[p] ELSE ""

IsNumber(tok) == tok # "" /\ \A i \in 1..Len(tok) : At(tok, i) \in DigitSet

IsName(tok) ==
    /\ tok # ""
    /\ At(tok, 1) \in WordSet \ DigitSet
    /\ \A i \in 1..Len(tok) : At(tok, i) \in WordSet
    /\ tok \notin {"lambda", "if", "while", "for", "def", "in", "print", "global",
                   "return", "else"}

IsString(tok) ==
    Len(tok) >= 2 /\ At(tok, 1) \in {"\"", "'"} /\ At(tok, Len(tok)) = At(tok, 1)

\* int(tok) for a decimal numeral
RECURSIVE NumberOf(_, _)
NumberOf(tok, n) ==
    IF n = 0 THEN 0
    ELSE 10 * NumberOf(tok, n - 1)
         + (CHOOSE d \in 0..9 : At("0123456789", d + 1) = At(tok, n))

\* x ** y for y >= 0
RECURSIVE Power(_, _)
Power(x, y) == IF y <= 0 THEN 1 ELSE x * Power(x, y - 1)

\* The scope an expression is evaluated in: the module's globals, and inside
\* a function its locals and the names that are local to it (those its body
\* assigns).  dry: the expression is only parsed, as compile() does.
Scope(globals, locals, local_names, infn, dry) ==
    [globals |-> globals, locals |-> locals, local_names |-> local_names,
     infn |-> infn, dry |-> dry]

\* the outcome of evaluating a part of an expression: its value, the index
\* of the token after it, and the exception raised
Ok(v, p) == [v |-> v, p |-> p, raised |-> "none"]

Err(kind, p) == [v |-> NoneValue, p |-> p, raised |-> kind]

\* the value of a name
Lookup(sc, name, p) ==
    IF sc.dry THEN Ok(IntValue(0), p)
    ELSE IF sc.infn /\ name \in sc.local_names
    THEN IF name \in DOMAIN sc.locals THEN Ok(sc.locals[name], p)
         ELSE Err("UnboundLocalError", p)
    ELSE IF name \in DOMAIN sc.globals THEN Ok(sc.globals[name], p)
    ELSE Err("NameError", p)

\* A number is the fraction n over m, m being 1 for an int
Den(v) == IF v.t = "int" THEN 1 ELSE v.m

\* the number num over den: an int when both operands were, else a float
\* with a positive denominator
Number(a, b, num, den) ==
    IF a.t = "int" /\ b.t = "int" /\ den = 1 THEN IntValue(num)
    ELSE IF den < 0 THEN Value("float", 0 - num, 0 - den, "", <<>>)
    ELSE Value("float", num, den, "", <<>>)

\* a op b for two numbers, a / b being kept as a fraction
Arithmetic(op, a, b, p) ==
    CASE op = "+"  -> Ok(Number(a, b, a.n * Den(b) + b.n * Den(a), Den(a) * Den(b)), p)
      [] op = "-"  -> Ok(Number(a, b, a.n * Den(b) - b.n * Den(a), Den(a) * Den(b)), p)
      [] op = "*"  -> Ok(Number(a, b, a.n * b.n, Den(a) * Den(b)), p)
      [] op = "/"  -> IF b.n = 0 THEN Err("ZeroDivisionError", p)
                      ELSE Ok(Number(NoneValue, b, a.n * Den(b), Den(a) * b.n), p)
      [] op = "<"  -> Ok(IntValue(IF a.n * Den(b) < b.n * Den(a) THEN 1 ELSE 0), p)
      [] op = "<=" -> Ok(IntValue(IF a.n * Den(b) <= b.n * Den(a) THEN 1 ELSE 0), p)
      [] op = ">"  -> Ok(IntValue(IF a.n * Den(b) > b.n * Den(a) THEN 1 ELSE 0), p)
      [] op = "==" -> Ok(IntValue(IF a.n * Den(b) = b.n * Den(a) THEN 1 ELSE 0), p)
      [] OTHER     -> Err("SyntaxError", p)

\* a op b for two values; ** and % are those of two ints
BinOp(sc, op, a, b, p) ==
    IF sc.dry THEN Ok(IntValue(0), p)
    ELSE IF a.t = "str" /\ b.t = "str" /\ op = "+" THEN Ok(StrValue(a.s \o b.s), p)
    ELSE IF a.t \notin {"int", "float"} \/ b.t \notin {"int", "float"}
    THEN Err("TypeError", p)
    ELSE IF op \notin {"**", "%"} THEN Arithmetic(op, a, b, p)
    ELSE IF a.t # "int" \/ b.t # "int" THEN Err("FloatingPoint", p)
    ELSE IF op = "**"
    THEN (IF b.n >= 0 THEN Ok(IntValue(Power(a.n, b.n)), p)
          ELSE IF a.n = 0 THEN Err("ZeroDivisionError", p)
          ELSE Ok(Number(NoneValue, b, 1, Power(a.n, 0 - b.n)), p))
    ELSE IF b.n = 0 THEN Err("ZeroDivisionError", p)
    ELSE IF b.n > 0 THEN Ok(IntValue(a.n % b.n), p)
    ELSE Ok(IntValue(0 - ((0 - a.n) % (0 - b.n))), p)

\* the index of the token that closes the parenthesis open before index p,
\* or Len(toks) + 1: the end of a lambda's body
RECURSIVE BodyEnd(_, _, _)
BodyEnd(toks, p, depth) ==
    IF p > Len(toks) THEN p
    ELSE IF toks[p] \in {")", "]", ","} /\ depth = 0 THEN p
    ELSE IF toks[p] \in {"(", "["} THEN BodyEnd(toks, p + 1, depth + 1)
    ELSE IF toks[p] \in {")", "]"} THEN BodyEnd(toks, p + 1, depth - 1)
    ELSE BodyEnd(toks, p + 1, depth)

RECURSIVE Expr(_, _, _)
RECURSIVE Comparison(_, _, _)
RECURSIVE Sum(_, _, _)
RECURSIVE SumRest(_, _, _)
RECURSIVE Term(_, _, _)
RECURSIVE TermRest(_, _, _)
RECURSIVE Factor(_, _, _)
RECURSIVE Postfix(_, _, _)
RECURSIVE Atom(_, _, _)
RECURSIVE Items(_, _, _, _, _)

\* a OP b with the right operand r already evaluated
Combine(sc, op, a, r) == IF r.raised # "none" THEN r ELSE BinOp(sc, op, a.v, r.v, r.p)

\* -x
Negate(sc, r) ==
    IF r.raised # "none" \/ sc.dry THEN r
    ELSE IF r.v.t \in {"int", "float"} THEN Ok([r.v EXCEPT !.n = 0 - r.v.n], r.p)
    ELSE Err("TypeError", r.p)

\* a comparison or a sum
Compared(toks, sc, a) ==
    IF a.raised = "none" /\ Tok(toks, a.p) \in {"<", ">"} /\ Tok(toks, a.p + 1) = "="
    THEN Combine(sc, Tok(toks, a.p) \o "=", a, Sum(toks, a.p + 2, sc))
    ELSE IF a.raised = "none" /\ Tok(toks, a.p) = "=" /\ Tok(toks, a.p + 1) = "="
    THEN Combine(sc, "==", a, Sum(toks, a.p + 2, sc))
    ELSE IF a.raised = "none" /\ Tok(toks, a.p) \in {"<", ">"}
    THEN Combine(sc, Tok(toks, a.p), a, Sum(toks, a.p + 1, sc))
    ELSE a

\* the truth value of a value
Truthy(v) ==
    CASE v.t \in {"int", "float"} -> v.n # 0
      [] v.t = "str" -> v.s # ""
      [] v.t \in {"list", "tuple"} -> v.items # <<>>
      [] v.t = "None" -> FALSE
      [] OTHER -> TRUE

Comparison(toks, p, sc) == Compared(toks, sc, Sum(toks, p, sc))

\* the value x of a conditional expression whose other alternative is y
Alternative(x, y) ==
    IF y.raised # "none" THEN y
    ELSE IF x.raised # "none" THEN x
    ELSE [x EXCEPT !.p = y.p]

\* A conditional expression x if c else y at p is evaluated in steps, each
\* one comparison: "probe" parses x to find the if, "condition" evaluates c,
\* "chosen" evaluates x when c is true; "plain" is a comparison that no if
\* follows.  Of x and y only the one chosen is evaluated, the other one is
\* parsed.

\* where the comparison of a step starts, x being the outcome of the step
\* before
StepStart(p, step, x) == IF step = "condition" THEN x.p + 1 ELSE p

StepScope(sc, step) == IF step = "probe" THEN [sc EXCEPT !.dry = TRUE] ELSE sc

\* the step after the step whose outcome is r, "else" when the alternative
\* after else is next and "over" when the evaluation is over
StepAfter(toks, sc, step, r) ==
    CASE step = "plain" -> "over"
      [] step = "probe" ->
            IF r.raised = "none" /\ Tok(toks, r.p) = "if" THEN "condition" ELSE "plain"
      [] step = "condition" ->
            IF r.raised # "none" \/ Tok(toks, r.p) # "else" THEN "over"
            ELSE IF sc.dry \/ ~Truthy(r.v) THEN "else"
            ELSE "chosen"
      [] OTHER -> "else"

\* the outcome of the last step: a condition without else is no expression
Over(toks, step, r) ==
    IF step = "condition" /\ r.raised = "none" THEN Err("SyntaxError", r.p) ELSE r

\* the alternative y after else: the value when c is false, and parsed only
\* when x has been chosen
Else(step, r, y) == IF step = "chosen" THEN Alternative(r, y) ELSE y

RECURSIVE Conditional(_, _, _, _, _)

\* the step after the step step, whose outcome is r, is after; c is the
\* outcome of the condition when x has been chosen
ConditionalStep(toks, p, sc, step, c, r, after) ==
    IF after = "over" THEN Over(toks, step, r)
    ELSE IF after = "else"
    THEN Else(step, r, Expr(toks, (IF step = "chosen" THEN c ELSE r).p + 1,
                            IF step = "chosen" THEN [sc EXCEPT !.dry = TRUE] ELSE sc))
    ELSE Conditional(toks, p, sc, after, r)

\* the step step has had the outcome r
ConditionalAfter(toks, p, sc, step, c, r) ==
    ConditionalStep(toks, p, sc, step, c, r, StepAfter(toks, sc, step, r))

Conditional(toks, p, sc, step, x) ==
    ConditionalAfter(toks, p, sc, step, x,
                     Comparison(toks, StepStart(p, step, x), StepScope(sc, step)))

Expr(toks, p, sc) ==
    Conditional(toks, p, sc,
                IF \E i \in p..Len(toks) : toks[i] = "if" THEN "probe" ELSE "plain",
                Err("none", p))

Sum(toks, p, sc) == SumRest(toks, sc, Term(toks, p, sc))

\* the operators + and - take their operands from left to right
SumRest(toks, sc, a) ==
    IF a.raised = "none" /\ Tok(toks, a.p) \in {"+", "-"}
    THEN SumRest(toks, sc, Combine(sc, Tok(toks, a.p), a, Term(toks, a.p + 1, sc)))
    ELSE a

Term(toks, p, sc) == TermRest(toks, sc, Factor(toks, p, sc))

\* so do *, / and %, which bind tighter
TermRest(toks, sc, a) ==
    IF a.raised = "none" /\ Tok(toks, a.p) \in {"*", "/", "%"}
    THEN TermRest(toks, sc, Combine(sc, Tok(toks, a.p), a, Factor(toks, a.p + 1, sc)))
    ELSE a

\* ** binds tightest, and takes its right operand first
PowerOf(toks, sc, a) ==
    IF a.raised = "none" /\ Tok(toks, a.p) = "**"
    THEN Combine(sc, "**", a, Factor(toks, a.p + 1, sc))
    ELSE a

Factor(toks, p, sc) ==
    IF Tok(toks, p) = "-" THEN Negate(sc, Factor(toks, p + 1, sc))
    ELSE PowerOf(toks, sc, Postfix(toks, p, sc))

\* the scope of a module-level lambda when it is called: the globals as they
\* are at the call
CallScope(sc) == Scope(sc.globals, <<>>, {}, FALSE, sc.dry)

\* the scope of compile(): nothing is looked up
DryScope == Scope(<<>>, <<>>, {}, FALSE, TRUE)

\* the tokens toks are one whole expression
WholeExpr(toks, r) == r.raised = "none" /\ r.p = Len(toks) + 1

\* the value of the parenthesised expression r, whose ")" stands at r.p
Closed(toks, r, close) ==
    IF r.raised # "none" THEN r
    ELSE IF Tok(toks, r.p) = close THEN [r EXCEPT !.p = r.p + 1]
    ELSE Err("SyntaxError", r.p)

\* the items r as a tuple
TupleOf(r) == IF r.raised # "none" THEN r ELSE [r EXCEPT !.v.t = "tuple"]

\* a[i]
Subscript(sc, a, i) ==
    IF i.raised # "none" \/ sc.dry THEN i
    ELSE IF a.v.t # "list" \/ i.v.t # "int" THEN Err("TypeError", i.p)
    ELSE IF i.v.n >= 0 /\ i.v.n < Len(a.v.items) THEN Ok(a.v.items[i.v.n + 1], i.p)
    ELSE IF i.v.n < 0 /\ 0 - i.v.n <= Len(a.v.items)
    THEN Ok(a.v.items[Len(a.v.items) + i.v.n + 1], i.p)
    ELSE Err("IndexError", i.p)

\* the call of the value a with the arguments args: the body of a lambda
\* without parameters is evaluated at the call
CallValue(sc, a, args) ==
    IF args.raised # "none" \/ sc.dry THEN args
    ELSE IF a.v.t = "lambda" /\ args.v.items = <<>>
    THEN [Expr(Tokens(a.v.s, 1, <<>>), 1, CallScope(sc)) EXCEPT !.p = args.p]
    ELSE Err("TypeError", args.p)

\* len(x)
LenOf(sc, r) ==
    IF r.raised # "none" \/ sc.dry THEN r
    ELSE IF r.v.t = "list" THEN Ok(IntValue(Len(r.v.items)), r.p)
    ELSE IF r.v.t = "str" THEN Ok(IntValue(Len(r.v.s)), r.p)
    ELSE Err("TypeError", r.p)

\* lambda: body, where the body ends before the token at index e
LambdaAt(toks, p, e) ==
    IF WholeExpr(SubSeq(toks, p, e - 1), Expr(SubSeq(toks, p, e - 1), 1, DryScope))
    THEN Ok(LambdaValue(Join(" ", SubSeq(toks, p, e - 1))), e)
    ELSE Err("SyntaxError", p)

\* subscripts and calls after a value
RECURSIVE PostfixRest(_, _, _)
PostfixRest(toks, sc, a) ==
    IF a.raised # "none" THEN a
    ELSE IF Tok(toks, a.p) = "["
    THEN PostfixRest(toks, sc,
                     Subscript(sc, a, Closed(toks, Expr(toks, a.p + 1, sc), "]")))
    ELSE IF Tok(toks, a.p) = "("
    THEN PostfixRest(toks, sc, CallValue(sc, a, Items(toks, a.p + 1, sc, <<>>, ")")))
    ELSE a

Postfix(toks, p, sc) == PostfixRest(toks, sc, Atom(toks, p, sc))

\* the items of a list display or the arguments of a call, up to the token
\* close, as a list
ItemsAfter(toks, sc, acc, close, r) ==
    IF r.raised # "none" THEN r
    ELSE IF Tok(toks, r.p) = "," THEN Items(toks, r.p + 1, sc, Append(acc, r.v), close)
    ELSE IF Tok(toks, r.p) = close THEN Ok(ListValue(Append(acc, r.v)), r.p + 1)
    ELSE Err("SyntaxError", r.p)

Items(toks, p, sc, acc, close) ==
    IF Tok(toks, p) = close THEN Ok(ListValue(acc), p + 1)
    ELSE ItemsAfter(toks, sc, acc, close, Expr(toks, p, sc))

\* ( x ) or the tuple ( x , ... ), x being evaluated
Parenthesised(toks, sc, x) ==
    IF x.raised = "none" /\ Tok(toks, x.p) = ","
    THEN TupleOf(Items(toks, x.p + 1, sc, <<x.v>>, ")"))
    ELSE Closed(toks, x, ")")

\* ForceRuntime._force_ternary(condition, true_val, false_val), called with
\* the arguments args
force_ternary(sc, args) ==
    IF args.raised # "none" \/ sc.dry THEN args
    ELSE IF Len(args.v.items) # 3 THEN Err("TypeError", args.p)
    ELSE Ok(IF Truthy(args.v.items[1]) THEN args.v.items[2] ELSE args.v.items[3],
            args.p)

Atom(toks, p, sc) ==
    CASE IsNumber(Tok(toks, p)) -> Ok(IntValue(NumberOf(toks[p], Len(toks[p]))), p + 1)
      [] IsString(Tok(toks, p)) ->
            Ok(StrValue(SubSeq(toks[p], 2, Len(toks[p]) - 1)), p + 1)
      [] Tok(toks, p) = "True" -> Ok(IntValue(1), p + 1)
      [] Tok(toks, p) = "False" -> Ok(IntValue(0), p + 1)
      [] Tok(toks, p) = "(" -> Parenthesised(toks, sc, Expr(toks, p + 1, sc))
      [] Tok(toks, p) = "[" -> Items(toks, p + 1, sc, <<>>, "]")
      [] Tok(toks, p) = "lambda" /\ Tok(toks, p + 1) = ":" ->
            LambdaAt(toks, p + 2, BodyEnd(toks, p + 2, 0))
      [] Tok(toks, p) = "len" /\ Tok(toks, p + 1) = "(" ->
            LenOf(sc, Closed(toks, Expr(toks, p + 2, sc), ")"))
      [] Tok(toks, p) = "force_ternary" /\ Tok(toks, p + 1) = "(" ->
            force_ternary(sc, Items(toks, p + 2, sc, <<>>, ")"))
      [] IsName(Tok(toks, p))
            /\ Tok(toks, p) \notin {"True", "False", "len", "force_ternary"} ->
            Lookup(sc, toks[p], p + 1)
      [] OTHER -> Err("SyntaxError", p)

\* the value of the expression text in the scope sc; text that is no
\* expression is a SyntaxError
EvalAll(toks, r) ==
    IF r.raised = "none" /\ r.p # Len(toks) + 1 THEN Err("SyntaxError", r.p) ELSE r

EvalTokens(toks, sc) == EvalAll(toks, Expr(toks, 1, sc))

Eval(text, sc) == EvalTokens(Tokens(text, 1, <<>>), sc)

\* how often the body of one while loop is followed
MaxIterations == 6

\* the number of spaces a line starts with
LeadingSpaces(line) == RunLen(line, 1, "= ")

\* A line of the code as compile() sees it: its indentation and its tokens
CodeLine(line) == [indent |-> LeadingSpaces(line), toks |-> Tokens(line, 1, <<>>)]

\* the lines of python_code that are not blank
CodeLines(python_code) ==
    SelectSeq([i \in 1..Len(SplitLines(python_code)) |->
                  CodeLine(SplitLines(python_code)[i])],
              LAMBDA l : l.toks # <<>>)

\* the last token of a line
LastTok(toks) == Tok(toks, Len(toks))

\* the kind of statement the tokens of a line make
StmtKind(toks) ==
    CASE Tok(toks, 1) = "for" /\ IsName(Tok(toks, 2)) /\ Tok(toks, 3) = "in"
            /\ Tok(toks, 4) = "range" /\ Tok(toks, 5) = "("
            /\ Tok(toks, Len(toks) - 1) = ")" /\ LastTok(toks) = ":" -> "for"
      [] Tok(toks, 1) \in {"if", "while"} /\ LastTok(toks) = ":" -> toks[1]
      [] Tok(toks, 1) = "def" /\ IsName(Tok(toks, 2)) /\ Len(toks) = 5
            /\ SubSeq(toks, 3, 5) = <<"(", ")", ":">> -> "def"
      [] Tok(toks, 1) = "print" /\ Tok(toks, 2) = "(" /\ LastTok(toks) = ")" -> "print"
      [] IsName(Tok(toks, 1)) /\ Tok(toks, 2) = "=" /\ Tok(toks, 3) # "=" -> "assign"
      [] IsName(Tok(toks, 1)) /\ Tok(toks, 2) = "." /\ Tok(toks, 3) = "append"
            /\ Tok(toks, 4) = "(" /\ LastTok(toks) = ")" -> "append"
      [] Len(toks) > 2 /\ Tok(toks, Len(toks) - 1) = "(" /\ LastTok(toks) = ")" -> "call"
      [] OTHER -> "expr"

\* the tokens of the expression of a statement: the value assigned, printed
\* or appended, the condition, the arguments of range() with the ")" after
\* them, the function called
StmtExpr(toks) ==
    CASE StmtKind(toks) = "for" -> SubSeq(toks, 6, Len(toks) - 1)
      [] StmtKind(toks) \in {"if", "while"} -> SubSeq(toks, 2, Len(toks) - 1)
      [] StmtKind(toks) = "def" -> <<"0">>
      [] StmtKind(toks) = "print" -> SubSeq(toks, 3, Len(toks) - 1)
      [] StmtKind(toks) = "assign" -> SubSeq(toks, 3, Len(toks))
      [] StmtKind(toks) = "append" -> SubSeq(toks, 5, Len(toks) - 1)
      [] StmtKind(toks) = "call" -> SubSeq(toks, 1, Len(toks) - 2)
      [] OTHER -> toks

\* the expression of the statement in the scope sc; range() takes three
\* arguments here
StmtValue(toks, sc) ==
    IF StmtKind(toks) = "for"
    THEN EvalAll(StmtExpr(toks), Items(StmtExpr(toks), 1, sc, <<>>, ")"))
    ELSE EvalTokens(StmtExpr(toks), sc)

\* the line opens a block
OpensBlock(l) == StmtKind(l.toks) \in {"for", "if", "while", "def"}

\* compile() accepts the lines: every statement parses, a block follows
\* every line that opens one, and no other line is indented more than the
\* line before it
LineCompiles(prog, i) ==
    /\ StmtValue(prog[i].toks, DryScope).raised = "none"
    /\ IF i = 1 THEN prog[i].indent = 0 ELSE
       IF OpensBlock(prog[i - 1]) THEN prog[i].indent > prog[i - 1].indent
       ELSE /\ prog[i].indent <= prog[i - 1].indent
            /\ \E j \in 1..(i - 1) : prog[j].indent = prog[i].indent
    /\ OpensBlock(prog[i]) => i < Len(prog)

Compiles(prog) == \A i \in 1..Len(prog) : LineCompiles(prog, i)

\* the last line of the block the line i opens, among the lines up to hi;
\* i itself when it opens none
BlockEnd(prog, i, hi) ==
    IF \A j \in (i + 1)..hi : prog[j].indent > prog[i].indent THEN hi
    ELSE (CHOOSE j \in (i + 1)..hi :
             /\ prog[j].indent <= prog[i].indent
             /\ \A k \in (i + 1)..(j - 1) : prog[k].indent > prog[i].indent) - 1

\* the names the lines lo .. hi assign: the local names of a function with
\* this body
AssignedNames(prog, lo, hi) ==
    {prog[j].toks[1] : j \in {k \in lo..hi : StmtKind(prog[k].toks) = "assign"}}
        \cup {prog[j].toks[2] : j \in {k \in lo..hi : StmtKind(prog[k].toks) = "for"}}

\* The state of an execution: the module's globals, the locals of the
\* function being executed and the names local to it, what print has
\* written, and the exception raised
Running(globals, locals, local_names, infn, out, raised) ==
    [globals |-> globals, locals |-> locals, local_names |-> local_names,
     infn |-> infn, out |-> out, raised |-> raised]

\* the scope the expressions of a statement are evaluated in
ScopeOf(st) == Scope(st.globals, st.locals, st.local_names, st.infn, FALSE)

Raising(st, kind) == [st EXCEPT !.raised = kind]

\* name = v: the binding is made in the locals of a function and of a module
\* executed with a locals dict of its own, and in the globals of another
\* module
Bind(st, name, v) ==
    IF st.infn THEN [st EXCEPT !.locals = (name :> v) @@ st.locals,
                               !.local_names = @ \cup {name}]
    ELSE [st EXCEPT !.globals = (name :> v) @@ st.globals]

\* name = expr, r the outcome of expr
Assigned(st, name, r) ==
    IF r.raised # "none" THEN Raising(st, r.raised) ELSE Bind(st, name, r.v)

\* print(expr)
Printed(st, r) ==
    IF r.raised # "none" THEN Raising(st, r.raised)
    ELSE [st EXCEPT !.out = Append(st.out, r.v)]

\* name.append(expr): the list name refers to grows, in the scope that
\* holds it
Appended(st, name, target, r) ==
    IF target.raised # "none" THEN Raising(st, target.raised)
    ELSE IF target.v.t # "list" THEN Raising(st, "AttributeError")
    ELSE IF r.raised # "none" THEN Raising(st, r.raised)
    ELSE IF st.infn /\ name \in st.local_names
    THEN [st EXCEPT !.locals =
             (name :> ListValue(Append(target.v.items, r.v))) @@ st.locals]
    ELSE [st EXCEPT !.globals =
             (name :> ListValue(Append(target.v.items, r.v))) @@ st.globals]

\* how many values range(s, b, k) has
RangeLen(s, b, k) ==
    IF k > 0 THEN (IF b > s THEN (b - s + k - 1) \div k ELSE 0)
    ELSE (IF s > b THEN (s - b - k - 1) \div (0 - k) ELSE 0)

\* the state a call returns to: the caller's locals, the globals and the
\* output as the function left them, and the exception that left it
Returned(st, after) ==
    [st EXCEPT !.globals = after.globals, !.out = after.out,
               !.raised = after.raised]

RECURSIVE ExecFrom(_, _, _, _)
RECURSIVE ExecStmt(_, _, _, _)
RECURSIVE WhileLoop(_, _, _, _, _)
RECURSIVE ForLoop(_, _, _, _, _, _, _)

\* if cond: the block is executed when cond is true
Branch(prog, i, hi, st, r) ==
    IF r.raised # "none" THEN Raising(st, r.raised)
    ELSE IF Truthy(r.v) THEN ExecFrom(prog, i + 1, BlockEnd(prog, i, hi), st)
    ELSE st

\* while cond: with the condition's outcome r; the block is executed and
\* the condition evaluated again, at most fuel times
WhileStep(prog, i, hi, st, fuel, r) ==
    IF r.raised # "none" THEN Raising(st, r.raised)
    ELSE IF ~Truthy(r.v) THEN st
    ELSE IF fuel = 0 THEN Raising(st, "Unfinished")
    ELSE WhileLoop(prog, i, hi, ExecFrom(prog, i + 1, BlockEnd(prog, i, hi), st),
                   fuel - 1)

WhileLoop(prog, i, hi, st, fuel) ==
    IF st.raised # "none" THEN st
    ELSE WhileStep(prog, i, hi, st, fuel, StmtValue(prog[i].toks, ScopeOf(st)))

\* for name in range(s, b, k): range(s, b, k) is made once, from a = <<s, b,
\* k>>; each of its n values in turn is bound to name and the block executed
ForLoop(prog, i, hi, st, a, n, j) ==
    IF st.raised # "none" \/ j >= n THEN st
    ELSE ForLoop(prog, i, hi,
                 ExecFrom(prog, i + 1, BlockEnd(prog, i, hi),
                          Bind(st, prog[i].toks[2], IntValue(a[1].n + j * a[3].n))),
                 a, n, j + 1)

\* for name in range(...), r the outcome of the arguments
Counted(prog, i, hi, st, r) ==
    IF r.raised # "none" THEN Raising(st, r.raised)
    ELSE IF Len(r.v.items) # 3 \/ \E j \in 1..Len(r.v.items) : r.v.items[j].t # "int"
    THEN Raising(st, "TypeError")
    ELSE IF r.v.items[3].n = 0 THEN Raising(st, "ValueError")
    ELSE ForLoop(prog, i, hi, st, r.v.items,
                 RangeLen(r.v.items[1].n, r.v.items[2].n, r.v.items[3].n), 0)

\* f(): the body of a function defined with def is executed in a frame of
\* its own, where the names the body assigns are local; a lambda's body is
\* evaluated
Called(prog, st, r) ==
    IF r.raised # "none" THEN Raising(st, r.raised)
    ELSE IF r.v.t = "def"
    THEN Returned(st, ExecFrom(prog, r.v.n, r.v.m,
                               Running(st.globals, <<>>,
                                       AssignedNames(prog, r.v.n, r.v.m), TRUE,
                                       st.out, "none")))
    ELSE Raising(st, CallValue(ScopeOf(st), r, <<>>).raised)

\* the statement at line i, with its block, r the outcome of its expression
ExecKind(prog, i, hi, st, kind, r) ==
    CASE kind = "assign" -> Assigned(st, prog[i].toks[1], r)
      [] kind = "print" -> Printed(st, r)
      [] kind = "append" ->
            Appended(st, prog[i].toks[1], Lookup(ScopeOf(st), prog[i].toks[1], 0), r)
      [] kind = "if" -> Branch(prog, i, hi, st, r)
      [] kind = "for" -> Counted(prog, i, hi, st, r)
      [] kind = "def" -> Bind(st, prog[i].toks[2], DefValue(i + 1, BlockEnd(prog, i, hi)))
      [] kind = "call" -> Called(prog, st, r)
      [] OTHER -> Raising(st, r.raised)

ExecStmt(prog, i, hi, st) ==
    IF StmtKind(prog[i].toks) = "while" THEN WhileLoop(prog, i, hi, st, MaxIterations)
    ELSE ExecKind(prog, i, hi, st, StmtKind(prog[i].toks),
                  StmtValue(prog[i].toks, ScopeOf(st)))

\* the statements at lines lo .. hi in order, each with its block, until one
\* raises
ExecFrom(prog, lo, hi, st) ==
    IF lo > hi \/ st.raised # "none" THEN st
    ELSE ExecFrom(prog, BlockEnd(prog, lo, hi) + 1, hi, ExecStmt(prog, lo, hi, st))

\* the exception kinds run_code names in an except clause of their own
NamedExceptions ==
    {"SyntaxError", "NameError", "TypeError", "ValueError", "FileNotFoundError",
     "ZeroDivisionError", "IndexError", "KeyError"}

\* compile() and exec() of python_code in the globals of a new ForceRuntime
ExecCode(prog) ==
    IF ~Compiles(prog)
    THEN Running(<<>>, <<>>, {}, FALSE, <<>>, "SyntaxError")
    ELSE ExecFrom(prog, 1, Len(prog), Running(<<>>, <<>>, {}, FALSE, <<>>, "none"))

-----------------------------------------------------------------------------
(* The sandbox: the handling of one request at a time *)

VARIABLES
    stage,               \* "idle", "running" (inside exec) or "done" (result returned)
    entry,               \* the entry point handling the request
    force_code,          \* the source text of the request
    program,             \* what the interpreter does with its translation
    verdict,             \* what validate_force_code did with the text
    calls,               \* the processing steps made on the text, in order
    indent_top,          \* the largest indent_level of the translation
    safe_globals,        \* the environment handed to exec
    alarm,               \* signal.alarm: "off", "armed" or "fired"
    elapsed,             \* seconds since the alarm was armed
    seg,                 \* the statement of the program being executed
    output_buffer,       \* the captured standard output
    io_performed,        \* the file and network built-ins the program has called
    result,              \* the result returned for the request
    builtins_is_module   \* whether __builtins__ is a module in security_improvements_demo

sandbox_vars ==
    <<stage, entry, force_code, program, verdict, calls, indent_top, safe_globals,
      alarm, elapsed, seg, output_buffer, io_performed, result, builtins_is_module>>

\* the web server in front of the sandbox
VARIABLES
    now,                 \* time.time(), in seconds
    rate_limiter,        \* RateLimiter.requests of the handler of the latest request
    admitted,            \* per client, the arrival times of the requests not answered 429
    web_response         \* what was done with the latest request

web_vars == <<now, rate_limiter, admitted, web_response>>

\* the command-line interpreter (force_compiler.py)
VARIABLES
    mode,                \* "none", "interactive" or "file"
    session,             \* "awaiting" (input), "terminated", or "none" before main()
    globals_,            \* ForceRuntime.globals: the value of each name
    main_defined,        \* the name main() increments, once an input has defined main
    last,                \* the latest input and what became of it
    exit_status,         \* the exit status of the process once it has ended
    eof_errors,          \* how often the end of the input has been reported
    translations         \* translate_to_python of each text the interpreter is given

session_vars ==
    <<mode, session, globals_, main_defined, last, exit_status, eof_errors,
      translations>>

\* the sandbox leaves the web server's bookkeeping and the command-line
\* interpreter alone
\* the web server of force_web_server.py: one ForceWebHandler, made for one
\* request
VARIABLES
    run_request,         \* the request the handler was given, or NoRunRequest
    run_response,        \* the JSON response it sent
    runtime              \* what run_code left behind: globals, output, exception

program_vars == <<run_request, run_response, runtime>>

\* a ForceStack made by ForceRuntime._force_stack
VARIABLES
    stack,               \* ForceStack.items
    stack_supplied,      \* how many items it was given: the initial ones and the pushed
    stack_popped,        \* the items pop has returned
    stack_last           \* the latest call, what it returned, and the items before it

stack_vars == <<stack, stack_supplied, stack_popped, stack_last>>

\* a ForceQueue made by ForceRuntime._force_queue
VARIABLES
    queue,               \* ForceQueue.items
    queue_supplied,      \* the items it was given, in order: the initial ones, then the enqueued
    queue_dequeued,      \* the items dequeue has returned, in order
    queue_last           \* the latest call and what it returned

queue_vars == <<queue, queue_supplied, queue_dequeued, queue_last>>

\* ForceRuntime._force_encryption
VARIABLES
    cipher_call,         \* the latest call: its data, its key and what it returned
    cipher_before        \* the call whose result was the data of the latest call

cipher_vars == <<cipher_call, cipher_before>>

\* a RateLimiter that the requests share, and the threads that call it
VARIABLES
    limiter,             \* the RateLimiter: its class, its quotas and its requests
    limiter_now,         \* what time.time() returns
    limiter_admitted,    \* per client, the times of the calls that returned True
    limiter_calls,       \* how many calls of is_allowed have been made
    limiter_ticks,       \* how many times the clock has advanced
    limiter_last,        \* the latest call, what it returned, the requests before it
    limiter_threads      \* per thread, how far its call of is_allowed has come

limiter_vars ==
    <<limiter, limiter_now, limiter_admitted, limiter_calls, limiter_ticks,
      limiter_last, limiter_threads>>

library_vars == <<program_vars, stack_vars, queue_vars, cipher_vars, limiter_vars>>

OutsideSandbox == <<web_vars, session_vars, library_vars>>

\* a key that a result dict does not have
Absent == "absent"

Result(success, error_type, output, python_code, status) ==
    [success |-> success, error_type |-> error_type, output |-> output,
     python_code |-> python_code, status |-> status]

NoResult == Result(Absent, Absent, Absent, Absent, 0)

NoVerdict == Verdict("none", "none", <<>>)

NoProgram == Program("", TRUE, <<>>)

NoEnvironment == [builtins |-> {}, names |-> {}]

\* how long past the deadline a run is followed
MaxOverrun == 2

\* ForceParser.translate_to_python with the largest indent_level it reached
TranslationOf(r) == [python_code |-> JoinLines(r.out), top |-> r.top]

Translation(source) ==
    Then(Then(BeforeBraces(source), ConvertBraces), TranslationOf)

\* the text is turned away after the verdict v, with the error class
Turned(v, error_type, status) ==
    [verdict |-> v, calls |-> v.checks, top |-> 0,
     result |-> Result(FALSE, error_type, Absent, Absent, status)]

\* the text is translated after the verdict v, and t is the translation
Translated(v, t, status) ==
    [verdict |-> v, calls |-> v.checks \o <<"translate_to_python">>, top |-> t.top,
     result |-> Result(TRUE, Absent, Absent, t.python_code, status)]

\* a secure_compile that translates the text before it looks at what
\* validate_force_code did with it
SecureCompileTranslatingFirst(code, v) ==
    IF v.exc \in {"SecurityError", "ValueError"}
    THEN [Turned(v, "security", 200)
              EXCEPT !.calls = v.checks \o <<"translate_to_python">>]
    ELSE Translated(v, Translation(code), 200)

\* SecureForceInterpreter.secure_compile, where v is what validate_force_code
\* does with the text
SecureCompileAfter(code, v) ==
    IF v.exc \in {"SecurityError", "ValueError"}
    THEN Turned(v, "security", 200)
    ELSE Translated(v, Translation(code), 200)

\* SecureForceInterpreter.secure_compile
secure_compile(code) ==
    SecureCompileAfter(code, InputValidator_validate_force_code(code))

\* the steps of secure_compile_and_run before the alarm is armed, where v is
\* what validate_force_code does with the text
PrologueAfter(code, v) ==
    IF v.exc = "SecurityError" THEN Turned(v, "security", 0)
    ELSE IF v.exc # "none" THEN Turned(v, "runtime", 0)
    ELSE Translated(v, Translation(code), 0)

\* the steps of secure_compile_and_run before the alarm is armed
CompileAndRunPrologue(code) ==
    PrologueAfter(code, SecurityValidator_validate_force_code(code))

\* compile() and then exec() of the translation, as far as they are called
ExecCalls(p) == IF p.compiles THEN <<"compile", "exec">> ELSE <<"compile">>

\* no request is being handled
SandboxAtRest ==
    /\ stage = "idle"
    /\ entry = "none"
    /\ force_code = ""
    /\ program = NoProgram
    /\ verdict = NoVerdict
    /\ calls = <<>>
    /\ indent_top = 0
    /\ safe_globals = NoEnvironment
    /\ alarm = "off"
    /\ elapsed = 0
    /\ seg = 1
    /\ output_buffer = ""
    /\ io_performed = {}
    /\ result = NoResult

\* defaultdict(list): no request recorded for any client
ClientIPs == {"10.0.0.1", "10.0.0.2"}

NoRequests == [client_ip \in ClientIPs |-> <<>>]

NoResponse ==
    [client_ip |-> "none", path |-> "none", prior_minute |-> 0, prior_hour |-> 0,
     status |-> 0, handler |-> "none"]

\* the server has been started and has had no request
WebAtRest ==
    /\ now = 0
    /\ rate_limiter = NoRequests
    /\ admitted = NoRequests
    /\ web_response = NoResponse

\* the names a session uses; a name is bound to a value or not bound
Names == {"total", "other"}

Unbound == [bound |-> FALSE, value |-> 0]

Bound(v) == [bound |-> TRUE, value |-> v]

NoInput ==
    [text |-> "", python_code |-> "", raised |-> "none", reported |-> "none",
     failed_before |-> FALSE]

\* main() of force_compiler.py has not been entered
SessionAtRest ==
    /\ mode = "none"
    /\ session = "none"
    /\ globals_ = [n \in Names |-> Unbound]
    /\ main_defined = "none"
    /\ last = NoInput
    /\ exit_status = 0
    /\ eof_errors = 0
    /\ translations = <<>>

\* no request has reached the web server of force_web_server.py
NoRunRequest == [path |-> "none", body |-> ""]

NoRunResponse == [success |-> FALSE, sent |-> FALSE]

ProgramsAtRest ==
    /\ run_request = NoRunRequest
    /\ run_response = NoRunResponse
    /\ runtime = Running(<<>>, <<>>, {}, FALSE, <<>>, "none")

\* no call on a stack or a queue has been made
NoCall == [op |-> "none"]

\* force_encrypt has not been called
NoCipherCall == [operation |-> "none"]

CipherAtRest == cipher_call = NoCipherCall /\ cipher_before = NoCipherCall

\* no RateLimiter has been made for the requests to share
NoLimiter == [class |-> "none"]

NoLimiterCall == [op |-> "none"]

NoCalls == [client_ip \in ClientIPs |-> 0]

LimiterAtRest ==
    /\ limiter = NoLimiter
    /\ limiter_now = 0
    /\ limiter_admitted = NoRequests
    /\ limiter_calls = NoCalls
    /\ limiter_ticks = 0
    /\ limiter_last = NoLimiterCall
    /\ limiter_threads = <<>>

\* no stack and no queue has been made
LibraryAtRest ==
    /\ ProgramsAtRest
    /\ CipherAtRest
    /\ LimiterAtRest
    /\ stack = <<>> /\ stack_supplied = 0 /\ stack_popped = {} /\ stack_last = NoCall
    /\ queue = <<>> /\ queue_supplied = <<>> /\ queue_dequeued = <<>>
    /\ queue_last = NoCall

SandboxInit ==
    /\ LibraryAtRest
    /\ SandboxAtRest
    /\ builtins_is_module \in BOOLEAN
    /\ WebAtRest
    /\ SessionAtRest

\* the request is answered without the program having been started
Answer(e, p, c) ==
    /\ UNCHANGED OutsideSandbox
    /\ stage' = "done"
    /\ entry' = e
    /\ force_code' = p.code
    /\ program' = p
    /\ verdict' = c.verdict
    /\ calls' = c.calls
    /\ indent_top' = c.top
    /\ result' = c.result
    /\ UNCHANGED <<safe_globals, alarm, elapsed, seg, output_buffer, io_performed,
                   builtins_is_module>>

\* the alarm is armed and the program is started in the environment env
Start(e, p, c, env) ==
    /\ UNCHANGED OutsideSandbox
    /\ stage' = "running"
    /\ entry' = e
    /\ force_code' = p.code
    /\ program' = p
    /\ verdict' = c.verdict
    /\ calls' = c.calls \o ExecCalls(p)
    /\ indent_top' = c.top
    /\ result' = c.result
    /\ safe_globals' = env
    /\ alarm' = "armed"
    /\ elapsed' = 0
    /\ seg' = 1
    /\ output_buffer' = ""
    /\ io_performed' = {}
    /\ UNCHANGED builtins_is_module

\* SecureForceWebHandler.handle_secure_compile for a request carrying p.code
handle_secure_compile(p) ==
    /\ stage = "idle"
    /\ Answer("handle_secure_compile", p, secure_compile(p.code))

\* the request is answered when the text was turned away and the program is
\* started when it was translated
AnswerOrStart(e, p, c, env) ==
    IF ~c.result.success THEN Answer(e, p, c) ELSE Start(e, p, c, env)

\* SecureForceWebHandler.handle_secure_run, up to the exec of secure_execute
handle_secure_run(p) ==
    /\ stage = "idle"
    /\ AnswerOrStart("handle_secure_run", p, secure_compile(p.code),
                     create_safe_environment(RuntimeGlobals))

\* ForceSecurityEnhancer.secure_compile_and_run, up to the exec
secure_compile_and_run(p) ==
    /\ stage = "idle"
    /\ AnswerOrStart("secure_compile_and_run", p, CompileAndRunPrologue(p.code),
                     create_safe_globals(RuntimeGlobals, builtins_is_module))

\* a request the web handler turns away before reading the source text:
\* Content-Length above 50000 (413) or a body that is no JSON (400)
BadRequest(e, status) ==
    /\ UNCHANGED OutsideSandbox
    /\ stage = "idle"
    /\ stage' = "done"
    /\ entry' = e
    /\ result' = Result(Absent, Absent, Absent, Absent, status)
    /\ UNCHANGED <<force_code, program, verdict, calls, indent_top, safe_globals,
                   alarm, elapsed, seg, output_buffer, io_performed,
                   builtins_is_module>>

\* the deadline of the entry point handling the request
Deadline ==
    IF entry = "secure_compile_and_run" THEN ForceConfig_MAX_EXECUTION_TIME
    ELSE ForceSecurityConfig_MAX_EXECUTION_TIME

\* the result of a run that ends with the exception exc leaving exec: the
\* finally clause cancels the alarm, the except clauses choose the class
Failed(exc) ==
    /\ stage' = "done"
    /\ seg' = seg
    /\ alarm' = IF exc = "TimeoutError" \/ alarm = "fired" THEN "fired" ELSE "off"
    /\ result' = Result(FALSE, IF exc = "TimeoutError" THEN "timeout" ELSE "runtime",
                        Absent, result.python_code,
                        IF entry = "handle_secure_run" THEN 200 ELSE 0)

\* the exception exc is raised at the statement being executed: a handler of
\* the program catches it when the statement is guarded
Raise(exc) ==
    IF seg <= Len(program.run) /\ program.run[seg].guarded
    THEN /\ seg' = seg + 1
         /\ alarm' = IF exc = "TimeoutError" THEN "fired" ELSE alarm
         /\ UNCHANGED <<stage, result>>
    ELSE Failed(exc)

\* compile() rejects the translation
CompileFails ==
    /\ UNCHANGED OutsideSandbox
    /\ stage = "running"
    /\ ~program.compiles
    /\ Failed("SyntaxError")
    /\ UNCHANGED <<entry, force_code, program, verdict, calls, indent_top,
                   safe_globals, elapsed, output_buffer, io_performed,
                   builtins_is_module>>

\* exec runs the next statement of the program
Execute ==
    /\ UNCHANGED OutsideSandbox
    /\ stage = "running"
    /\ program.compiles
    /\ seg <= Len(program.run)
    /\ LET st == program.run[seg]
       IN  /\ st.op # "loop"
           /\ CASE st.op = "print" ->
                    IF "print" \in safe_globals.builtins
                    THEN /\ output_buffer' = output_buffer \o st.arg
                         /\ seg' = seg + 1
                         /\ UNCHANGED <<stage, alarm, result, io_performed>>
                    ELSE /\ Raise("NameError")
                         /\ UNCHANGED <<output_buffer, io_performed>>
                [] st.op = "call" ->
                    IF st.arg \in safe_globals.names
                    THEN /\ io_performed' = io_performed \cup {st.arg}
                         /\ seg' = seg + 1
                         /\ UNCHANGED <<stage, alarm, result, output_buffer>>
                    ELSE /\ Raise("NameError")
                         /\ UNCHANGED <<output_buffer, io_performed>>
                [] st.op = "raise" ->
                    /\ Raise(st.arg)
                    /\ UNCHANGED <<output_buffer, io_performed>>
    /\ UNCHANGED <<entry, force_code, program, verdict, calls, indent_top,
                   safe_globals, elapsed, builtins_is_module>>

\* a second passes while the program runs
Tick ==
    /\ UNCHANGED OutsideSandbox
    /\ stage = "running"
    /\ program.compiles
    /\ alarm = "armed" => elapsed < Deadline
    /\ elapsed < Deadline + MaxOverrun
    /\ elapsed' = elapsed + 1
    /\ UNCHANGED <<stage, entry, force_code, program, verdict, calls, indent_top,
                   safe_globals, alarm, seg, output_buffer, io_performed, result,
                   builtins_is_module>>

\* SIGALRM arrives: timeout_handler raises TimeoutError in the running program
timeout_handler ==
    /\ UNCHANGED OutsideSandbox
    /\ stage = "running"
    /\ program.compiles
    /\ alarm = "armed"
    /\ elapsed >= Deadline
    /\ Raise("TimeoutError")
    /\ UNCHANGED <<entry, force_code, program, verdict, calls, indent_top,
                   safe_globals, elapsed, output_buffer, io_performed,
                   builtins_is_module>>

\* exec returns: the captured output is cut and the result returned
Return ==
    /\ UNCHANGED OutsideSandbox
    /\ stage = "running"
    /\ program.compiles
    /\ seg > Len(program.run)
    /\ stage' = "done"
    /\ alarm' = IF alarm = "fired" THEN "fired" ELSE "off"
    /\ result' = IF entry = "handle_secure_run"
                 THEN Result(TRUE, Absent, SecureExecuteOutput(output_buffer),
                             result.python_code, 200)
                 ELSE Result(TRUE, Absent, sanitize_output(output_buffer),
                             result.python_code, 0)
    /\ UNCHANGED <<entry, force_code, program, verdict, calls, indent_top,
                   safe_globals, elapsed, seg, output_buffer, io_performed,
                   builtins_is_module>>

\* the next request can be taken
NextRequest ==
    /\ UNCHANGED OutsideSandbox
    /\ stage = "done"
    /\ stage' = "idle"
    /\ entry' = "none"
    /\ force_code' = ""
    /\ program' = NoProgram
    /\ verdict' = NoVerdict
    /\ calls' = <<>>
    /\ indent_top' = 0
    /\ safe_globals' = NoEnvironment
    /\ alarm' = "off"
    /\ elapsed' = 0
    /\ seg' = 1
    /\ output_buffer' = ""
    /\ io_performed' = {}
    /\ result' = NoResult
    /\ UNCHANGED builtins_is_module

SandboxNext ==
    \/ \E p \in Programs : handle_secure_compile(p)
    \/ \E p \in Programs : handle_secure_run(p)
    \/ \E p \in Programs : secure_compile_and_run(p)
    \/ \E e \in {"handle_secure_compile", "handle_secure_run"}, status \in {400, 413} :
          BadRequest(e, status)
    \/ CompileFails
    \/ Execute
    \/ Tick
    \/ timeout_handler
    \/ Return
    \/ NextRequest

vars == <<sandbox_vars, web_vars, session_vars, library_vars>>

SpecSandbox == SandboxInit /\ [][SandboxNext]_vars

-----------------------------------------------------------------------------
(* The web server of secure_force_demo.py: rate limiting in front of the   *)
(* sandbox                                                                 *)

ForceSecurityConfig_MAX_REQUESTS_PER_MINUTE == 60

ForceSecurityConfig_MAX_REQUESTS_PER_HOUR == 1000

\* the requests of one client that are followed, and those of the other
MaxRequests == 61

MaxOtherRequests == 1

\* the clock is followed in steps of ClockStep seconds up to MaxClock
ClockStep == 30

MaxClock == 60

\* the times of the sequence times that are later than cutoff
After(times, cutoff) == SelectSeq(times, LAMBDA req_time : req_time > cutoff)

\* RateLimiter.is_allowed on the limiter whose requests are requests, at
\* current_time: [allowed, requests: the limiter's requests afterwards]
RateLimiter_is_allowed(requests, client_ip, current_time) ==
    LET kept == After(requests[client_ip], current_time - 3600)
        recent_requests == After(kept, current_time - 60)
        cleaned == [requests EXCEPT ![client_ip] = kept]
    IN  IF Len(recent_requests) >= ForceSecurityConfig_MAX_REQUESTS_PER_MINUTE
        THEN [allowed |-> FALSE, requests |-> cleaned]
        ELSE IF Len(kept) >= ForceSecurityConfig_MAX_REQUESTS_PER_HOUR
        THEN [allowed |-> FALSE, requests |-> cleaned]
        ELSE [allowed |-> TRUE,
              requests |-> [requests EXCEPT ![client_ip] = Append(kept, current_time)]]

\* SecureForceWebHandler.__init__: the server makes a handler for each
\* request, and each handler makes its own RateLimiter
SecureForceWebHandler_init == [rate_limiter |-> NoRequests]

\* the handler do_POST passes a request for path to
Dispatch(path) ==
    CASE path = "/api/compile" -> "handle_secure_compile"
      [] path = "/api/run"     -> "handle_secure_run"
      [] OTHER                 -> "none"

\* SecureForceWebHandler.do_POST for a request of client_ip for path: the
\* handler is made, its limiter is asked, the request is passed on.  What
\* handle_secure_compile and handle_secure_run do with the source text is
\* the subject of the sandbox's actions; here the answer records which of
\* them the request reached.
do_POST(client_ip, path) ==
    /\ Len(admitted[client_ip])
          < (IF client_ip = "10.0.0.1" THEN MaxRequests ELSE MaxOtherRequests)
    /\ LET self == SecureForceWebHandler_init
           r == RateLimiter_is_allowed(self.rate_limiter, client_ip, now)
       IN  /\ rate_limiter' = r.requests
           /\ admitted' = IF r.allowed
                          THEN [admitted EXCEPT ![client_ip] = Append(@, now)]
                          ELSE admitted
           /\ web_response' =
                 [client_ip |-> client_ip, path |-> path,
                  prior_minute |-> Len(After(admitted[client_ip], now - 60)),
                  prior_hour |-> Len(After(admitted[client_ip], now - 3600)),
                  status |-> IF ~r.allowed THEN 429
                             ELSE IF Dispatch(path) = "none" THEN 404 ELSE 200,
                  handler |-> IF r.allowed THEN Dispatch(path) ELSE "none"]
    /\ UNCHANGED <<now, sandbox_vars, session_vars,
                   library_vars>>

\* time passes
WebTick ==
    /\ now < MaxClock
    /\ now' = now + ClockStep
    /\ UNCHANGED <<rate_limiter, admitted, web_response, sandbox_vars, session_vars,
                   library_vars>>

WebInit ==
    /\ LibraryAtRest
    /\ WebAtRest
    /\ SandboxAtRest
    /\ builtins_is_module = TRUE
    /\ SessionAtRest

WebNext ==
    \/ \E client_ip \in ClientIPs, path \in {"/api/compile", "/api/run", "/"} :
          do_POST(client_ip, path)
    \/ WebTick

SpecWeb == WebInit /\ [][WebNext]_vars

\* C1: a request that arrives when its client has had MAX_REQUESTS_PER_MINUTE
\* requests admitted in the preceding 60 seconds, or MAX_REQUESTS_PER_HOUR in
\* the preceding hour, is answered 429 and reaches no handler.
C1_OverQuotaRejected ==
    (\/ web_response.prior_minute >= ForceSecurityConfig_MAX_REQUESTS_PER_MINUTE
     \/ web_response.prior_hour >= ForceSecurityConfig_MAX_REQUESTS_PER_HOUR)
        => web_response.status = 429 /\ web_response.handler = "none"


-----------------------------------------------------------------------------
(* The command-line interpreter: main() of force_compiler.py, in           *)
(* interactive mode and in file mode                                       *)

\* the largest value of a name that is followed
MaxValue == 3

\* how often the end of the input is followed
MaxEofErrors == 2

\* the decimal numeral of a number below ten
Numeral(v) == SubSeq("0123456789", v + 1, v + 1)

\* Force texts: a declaration, an output, the definition of main as a
\* function that counts in the global name n, and one text for each kind of
\* failure
DeclText(n, v) == "holocron " \o n \o " = " \o Numeral(v)

ShowText(n) == "respond " \o n

MainText(n) == "ability main(): global " \o n \o "; " \o n \o " = " \o n \o " + 1"

FailureTexts ==
    {"respond (", "respond nothing", "respond 1 + \"a\"", "respond int(\"a\")",
     "respond 1 / 0", "respond [1][2]", "respond {}[0]",
     "respond open(\"/no/such/file\")"}

\* the lines typed into an interactive session
InputLines ==
    {DeclText(n, v) : n \in Names, v \in 0..1}
        \cup {ShowText(n) : n \in Names}
        \cup {MainText(n) : n \in Names}
        \cup FailureTexts
        \cup {"exit()", "  exit()  ", "exit(3)"}

\* the files run in file mode: a failure between a declaration and an
\* output, and programs without a failure
FileTexts ==
    {DeclText("total", 1) \o "\n" \o f \o "\n" \o ShowText("total") : f \in FailureTexts}
        \cup FailureTexts
        \cup {DeclText("total", 1) \o "\n" \o ShowText("total"),
              DeclText("total", 1) \o "\n" \o MainText("total"),
              DeclText("other", 0) \o "\nexit(3)"}

\* ForceParser.translate_to_python on each of these texts.  The parser keeps
\* no state between two calls, so that the translation of a text is the same
\* whenever it is made: the table is made once, when the interpreter starts.
Translations == [text \in InputLines \cup FileTexts |-> translate_to_python(text)]

\* What the Python interpreter does with a line of translated code.  op is
\* "assign" (name = value), "print" (of name), "def" (main, counting in
\* name), "raise" (the exception kind), "exit" (with status value), or
\* "syntax" for a line compile() rejects.
Python(code, op, name, value, kind) ==
    [code |-> code, op |-> op, name |-> name, value |-> value, kind |-> kind]

PythonLines ==
    {Python(n \o " = " \o Numeral(v), "assign", n, v, "none") : n \in Names, v \in 0..1}
        \cup {Python("print(" \o n \o ")", "print", n, 0, "none") : n \in Names}
        \cup {Python("def main(): global " \o n \o "; " \o n \o " = " \o n \o " + 1",
                     "def", n, 0, "none") : n \in Names}
        \cup {Python("print(()", "syntax", "", 0, "SyntaxError"),
              Python("print(nothing)", "raise", "", 0, "NameError"),
              Python("print(1 + \"a\")", "raise", "", 0, "TypeError"),
              Python("print(int(\"a\"))", "raise", "", 0, "ValueError"),
              Python("print(1 / 0)", "raise", "", 0, "ZeroDivisionError"),
              Python("print([1][2])", "raise", "", 0, "IndexError"),
              Python("print({}[0])", "raise", "", 0, "KeyError"),
              Python("print(open(\"/no/such/file\"))", "raise", "", 0,
                     "FileNotFoundError"),
              Python("exit(3)", "exit", "", 3, "SystemExit")}

\* the statements of python_code, in order
Statements(python_code) ==
    LET lines == SplitLines(python_code)
    IN  [i \in 1..Len(lines) |-> CHOOSE m \in PythonLines : m.code = lines[i]]

\* the exceptions that are no subclass of Exception
BaseExceptions == {"SystemExit", "KeyboardInterrupt"}

\* exec() of one statement in the state st: [globals, main, raised,
\* status]; nothing more is executed once an exception is raised.  A print of
\* a name that is not bound raises NameError.
ExecStatement(m, st) ==
    IF st.raised # "none" THEN st
    ELSE CASE m.op = "assign" ->
                [st EXCEPT !.globals[m.name] = Bound(m.value)]
           [] m.op = "print" ->
                IF st.globals[m.name].bound THEN st
                ELSE [st EXCEPT !.raised = "NameError"]
           [] m.op = "def" -> [st EXCEPT !.main = m.name]
           [] m.op = "raise" -> [st EXCEPT !.raised = m.kind]
           [] m.op = "exit" -> [st EXCEPT !.raised = m.kind, !.status = m.value]
           [] OTHER -> st

\* the call self.globals['main']() of run_code
CallMain(st) ==
    IF st.raised # "none" \/ st.main = "none" THEN st
    ELSE IF st.globals[st.main].bound
    THEN [st EXCEPT !.globals[st.main] = Bound(st.globals[st.main].value + 1)]
    ELSE [st EXCEPT !.raised = "NameError"]

\* a run_code whose except clauses end the process with sys.exit(1) after
\* reporting the exception
run_code_exiting(python_code, st) ==
    LET stmts == Statements(python_code)
        ran == IF \E i \in 1..Len(stmts) : stmts[i].op = "syntax"
               THEN [st EXCEPT !.raised = "SyntaxError"]
               ELSE CallMain(Fold(LAMBDA i, t : ExecStatement(stmts[i], t),
                                  1, Len(stmts), st))
    IN  [globals |-> ran.globals, main |-> ran.main,
         raised |-> ran.raised,
         reported |-> IF ran.raised \in BaseExceptions \cup {"none"} THEN "none"
                      ELSE "run_code",
         leaves |-> IF ran.raised # "none" THEN "SystemExit" ELSE "none",
         status |-> IF ran.raised \in BaseExceptions \cup {"none"} THEN ran.status
                    ELSE 1]

\* ForceRuntime.run_code in the state st.  compile() rejects the code as a
\* whole; exec() runs the statements; then main is called if it is defined.
\* The except clauses catch every Exception and report it; another
\* exception leaves run_code.
run_code(python_code, st) ==
    LET stmts == Statements(python_code)
        ran == IF \E i \in 1..Len(stmts) : stmts[i].op = "syntax"
               THEN [st EXCEPT !.raised = "SyntaxError"]
               ELSE CallMain(Fold(LAMBDA i, t : ExecStatement(stmts[i], t),
                                  1, Len(stmts), st))
    IN  [globals |-> ran.globals, main |-> ran.main,
         raised |-> ran.raised,
         reported |-> IF ran.raised \in BaseExceptions \cup {"none"} THEN "none"
                      ELSE "run_code",
         leaves |-> IF ran.raised \in BaseExceptions THEN ran.raised ELSE "none",
         status |-> ran.status]

\* ForceInterpreter.run_force_code
run_force_code(force_text, st) == run_code(translations[force_text], st)

\* the state run_code starts from
Runtime ==
    [globals |-> globals_, main |-> main_defined,
     raised |-> "none", status |-> 0]

\* the outcome r of run_force_code on text becomes the state of the session;
\* an exception that leaves run_code and is no Exception ends the process
Evaluated(text, r) ==
    /\ \A n \in Names : r.globals[n].value <= MaxValue
    /\ globals_' = r.globals
    /\ main_defined' = r.main
    /\ last' = [text |-> text, python_code |-> translations[text],
                raised |-> r.raised, reported |-> r.reported,
                failed_before |-> last.failed_before \/ last.raised # "none"]
    /\ exit_status' = IF r.leaves = "SystemExit" THEN r.status ELSE 0

\* main() with --interactive: the shell starts
main_interactive ==
    /\ mode = "none"
    /\ mode' = "interactive"
    /\ session' = "awaiting"
    /\ UNCHANGED <<globals_, main_defined, last, exit_status, eof_errors,
                   translations, sandbox_vars, web_vars,
                   library_vars>>

\* one pass of the loop of the shell on the line read
InteractiveInput(line) ==
    /\ mode = "interactive"
    /\ session = "awaiting"
    /\ IF Strip(line) = "exit()"
       THEN /\ session' = "terminated"
            /\ last' = [text |-> line, python_code |-> "", raised |-> "none",
                        reported |-> "none",
                        failed_before |-> last.failed_before \/ last.raised # "none"]
            /\ UNCHANGED <<globals_, main_defined, exit_status>>
       ELSE LET r == run_force_code(line, Runtime)
            IN  /\ Evaluated(line, r)
                /\ session' = IF r.leaves \in BaseExceptions THEN "terminated"
                              ELSE "awaiting"
    /\ UNCHANGED <<mode, eof_errors, translations, sandbox_vars, web_vars,
                   library_vars>>

\* input() raises EOFError at the end of the input: the loop's except
\* Exception clause reports it and the loop goes on
EndOfInput ==
    /\ mode = "interactive"
    /\ session = "awaiting"
    /\ eof_errors < MaxEofErrors
    /\ eof_errors' = eof_errors + 1
    /\ UNCHANGED <<mode, session, globals_, main_defined, last, exit_status,
                   translations, sandbox_vars, web_vars,
                   library_vars>>

\* KeyboardInterrupt while the shell reads a line: the loop is left
KeyboardInterrupt ==
    /\ mode = "interactive"
    /\ session = "awaiting"
    /\ session' = "terminated"
    /\ UNCHANGED <<mode, globals_, main_defined, last, exit_status,
                   eof_errors, translations, sandbox_vars, web_vars,
                   library_vars>>

\* main() with a file name: run_force_file reads the file and runs it, and
\* the process ends
main_file(text) ==
    /\ mode = "none"
    /\ mode' = "file"
    /\ session' = "terminated"
    /\ Evaluated(text, run_force_code(text, Runtime))
    /\ UNCHANGED <<eof_errors, translations, sandbox_vars, web_vars,
                   library_vars>>

\* main() with the name of a file that does not exist, or with no argument:
\* a message is printed and main() returns
main_nothing_to_run ==
    /\ mode = "none"
    /\ mode' = "file"
    /\ session' = "terminated"
    /\ UNCHANGED <<globals_, main_defined, last, exit_status, eof_errors,
                   translations, sandbox_vars, web_vars,
                   library_vars>>

\* the interpreter is made: everything of SessionAtRest, with the
\* translations in place
SessionInit ==
    /\ LibraryAtRest
    /\ mode = "none"
    /\ session = "none"
    /\ globals_ = [n \in Names |-> Unbound]
    /\ main_defined = "none"
    /\ last = NoInput
    /\ exit_status = 0
    /\ eof_errors = 0
    /\ translations = Translations
    /\ SandboxAtRest
    /\ builtins_is_module = TRUE
    /\ WebAtRest

SessionNext ==
    \/ main_interactive
    \/ \E line \in InputLines : InteractiveInput(line)
    \/ EndOfInput
    \/ KeyboardInterrupt
    \/ \E text \in FileTexts : main_file(text)
    \/ main_nothing_to_run

SpecSession == SessionInit /\ [][SessionNext]_vars

\* the inputs that assign or declare the name n, or declare a function whose
\* body assigns it
InputsAssigning(n) == {DeclText(n, v) : v \in 0..1} \cup {MainText(n)}

\* C9: in an interactive session the binding of a name changes only by the
\* evaluation of an input that assigns or declares the name.
C9_BindingsChangeOnlyByAssignment ==
    [][mode' = "interactive"
           => \A n \in Names :
                  globals_'[n] # globals_[n] => last'.text \in InputsAssigning(n)]_vars

\* the kinds of failure of a program
ListedFailures ==
    {"SyntaxError", "NameError", "TypeError", "ValueError", "ZeroDivisionError",
     "IndexError", "KeyError", "FileNotFoundError"}

\* C10: an evaluation that fails with one of the listed kinds of failure is
\* caught and reported by run_code and does not terminate the caller: the
\* interactive session is awaiting the next line after it, and a file-mode
\* run has ended with exit status 0.
C10_FailuresAreCaught ==
    [][(last' # last /\ last'.raised \in ListedFailures)
           => /\ last'.reported = "run_code"
              /\ mode' = "interactive" => session' = "awaiting"
              /\ mode' = "file" => session' = "terminated" /\ exit_status' = 0]_vars

\* an interactive session has evaluated an output without error after an
\* earlier line failed
C10_Witness ==
    /\ mode = "interactive"
    /\ session = "awaiting"
    /\ last.failed_before
    /\ last.raised = "none"
    /\ last.text = ShowText("total")

-----------------------------------------------------------------------------
(* The web server of force_web_server.py: /api/compile and /api/run on a   *)
(* ForceWebHandler, which is made for one request and has a                *)
(* ForceInterpreter of its own                                             *)

\* the integers a program text is written with
MaxNegative == 1

MaxStart == 1

MaxBound == 2

MaxStep == 2

MaxOperand == 2

\* an integer as it is written in a program text
Literal(n) == IF n < 0 THEN "-" \o Numeral(0 - n) ELSE Numeral(n)

\* the statements a loop body is made of besides respond i: none, an
\* assignment to the loop variable, or an append to the collection xs
LoopBodies == {"", "    i = 7\n", "    xs.append(i)\n"}

\* a counting loop from s below the bound text b in steps of k
LoopText(s, b, k, body) ==
    "holocron xs = [4, 5]\ntrain (holocron i = " \o Literal(s) \o "; i < " \o b
    \o "; i = i + " \o Numeral(k) \o ") {\n    respond i\n" \o body \o "}"

\* the collection xs of the loop texts has two items
LenOfXs == 2

\* the bound of a counting loop, as it is written and its value: a literal
\* or len of the collection xs
Bounds ==
    {[text |-> Numeral(b), value |-> b] : b \in 0..MaxBound}
        \cup {[text |-> "len(xs)", value |-> LenOfXs]}

LoopTexts ==
    {LoopText(s, b.text, k, "") :
        s \in (0 - MaxNegative)..MaxStart, b \in Bounds, k \in 1..MaxStep}
        \cup {LoopText(0, b.text, 1, body) : b \in Bounds, body \in LoopBodies}

\* three-clause loops whose head is not of the counting form
OtherLoopHeads ==
    {"holocron i = 0; i <= 2; i = i + 1", "holocron i = 0; i < n; i = i + 1",
     "holocron i = 2; i > 0; i = i - 1", "holocron i = 0; i < 1 + 1; i = i + 1",
     "holocron i = 0; i < 2; i = i * 2"}

OtherLoopText(head) ==
    "holocron n = 2\ntrain (" \o head \o ") {\n    respond i\n}"

OtherLoopTexts == {OtherLoopText(head) : head \in OtherLoopHeads}

\* a declaration of x inside the body of a sense, meditate or train block,
\* x being declared before the block
Blocks ==
    {"sense (True)", "meditate (n < 1)", "train (holocron i = 0; i < 1; i = i + 1)"}

ShadowText(block, outer, inner) ==
    "holocron n = 0\nholocron x = " \o Numeral(outer) \o "\n" \o block
    \o " {\n    holocron x = " \o Numeral(inner) \o "\n    n = n + 1\n}\nrespond x"

ShadowTexts ==
    {ShadowText(block, outer, inner) :
        block \in Blocks, outer \in 0..1, inner \in 0..1}

\* a constant declared with kyber, and a later assignment or declaration
\* of its name
Rebindings == {"LIMIT", "kyber LIMIT", "holocron LIMIT"}

KyberText(rebinding, first, second) ==
    "kyber LIMIT = " \o Numeral(first) \o "\n" \o rebinding \o " = "
    \o Numeral(second) \o "\nrespond LIMIT"

KyberTexts ==
    {KyberText(rebinding, first, second) :
        rebinding \in Rebindings, first \in 0..1, second \in 0..1}

\* an assignment to total inside a function, total being declared at top
\* level
BumpText(outer, inner) ==
    "holocron total = " \o Numeral(outer) \o "\nability bump() {\n    total = "
    \o Numeral(inner) \o "\n}\nbump()\nrespond total"

BumpTexts == {BumpText(outer, inner) : outer \in 0..1, inner \in 0..1}

\* closures made in the body of a counting loop of b iterations and called
\* after it, the first one first
ClosureText(b) ==
    "holocron fs = []\ntrain (holocron i = 0; i < " \o Numeral(b)
    \o "; i = i + 1) {\n    fs.append(force_lightning: i)\n}\nrespond fs[0]()\nrespond fs["
    \o Numeral(b - 1) \o "]()"

ClosureTexts == {ClosureText(b) : b \in 1..(MaxBound + 1)}

\* force_calculate on two argument expressions, a being 1 and b being 2
Operations == {"add", "subtract", "multiply", "divide", "power", "modulo"}

Operands == {Numeral(n) : n \in 0..MaxOperand} \cup {"a + b", "(a + b)"}

CalculateText(operation, x, y) ==
    "holocron a = 1\nholocron b = 2\nrespond force_calculate(\"" \o operation
    \o "\", " \o x \o ", " \o y \o ")"

CalculateTexts ==
    {CalculateText(operation, x, y) : operation \in Operations, x \in Operands,
                                      y \in Operands}

\* jedi_mind_trick on a condition and two alternatives: argument
\* expressions as they are written, and as the Python expressions they mean
Conditions ==
    {[text |-> "0", python |-> "0"], [text |-> "1 < 2", python |-> "1 < 2"],
     [text |-> "len([1, 2])", python |-> "len([1, 2])"],
     [text |-> "jedi_mind_trick(1, 0, 1)", python |-> "force_ternary(1, 0, 1)"]}

Alternatives ==
    {[text |-> "3", python |-> "3"], [text |-> "(2 + 3)", python |-> "(2 + 3)"],
     [text |-> "len([5, 6])", python |-> "len([5, 6])"],
     [text |-> "jedi_mind_trick(0, 5, 6)", python |-> "force_ternary(0, 5, 6)"]}

TernaryText(c, a, b) ==
    "respond jedi_mind_trick(" \o c.text \o ", " \o a.text \o ", " \o b.text \o ")"

TernaryTexts ==
    {TernaryText(c, a, b) : c \in Conditions, a \in Alternatives, b \in Alternatives}

\* a comment after the first of two statements: a line comment, a block
\* comment, one that spans two lines, and block comments that contain //
Comments == {"// c", "/* c */", "/* a\nb */", "/* a // b */", "/* a // b\nc */"}

\* what follows the second statement: nothing, or a block comment
Tails == {"", " /* d */"}

CommentText(comment, tail) == "respond 1 " \o comment \o "\nrespond 2" \o tail

CommentTexts == {CommentText(comment, tail) : comment \in Comments, tail \in Tails}

\* the text of a string literal: plain text, keywords of the language, a
\* comment marker, bracket patterns
LiteralContents ==
    {"plain", "order", "sense", "respond", "holocron x", "a // b", "rebellion[1]",
     "a[0]"}

Quotes == {"\"", "'"}

LiteralText(quote, contents) == "respond " \o quote \o contents \o quote

LiteralTexts ==
    {LiteralText(quote, contents) : quote \in Quotes, contents \in LiteralContents}

\* a program that defines main, its body one output statement, and invokes
\* it or does not
EntryValues == 1..2

EntryText(value, invoked) ==
    "ability main() {\n    respond " \o Numeral(value) \o "\n}"
    \o (IF invoked THEN "\nmain()" ELSE "")

EntryTexts == {EntryText(value, invoked) : value \in EntryValues, invoked \in BOOLEAN}

\* a function that calls another function defined at top level
ChainText(value) ==
    "ability helper() {\n    respond " \o Numeral(value)
    \o "\n}\nability work() {\n    helper()\n}\nwork()"

\* a function that calls itself until the list xs has depth elements
SelfText(depth) ==
    "holocron xs = []\nability work() {\n    xs.append(1)\n    sense (len(xs) < "
    \o Numeral(depth) \o ") {\n        work()\n    }\n}\nwork()\nrespond len(xs)"

CallTexts == {ChainText(value) : value \in EntryValues}
                 \cup {SelfText(depth) : depth \in EntryValues}

\* programs that fail: a name that is not defined, at top level and in
\* main; a text that is no Python
FailingTexts ==
    {"respond undefined_variable",
     "ability main() {\n    respond undefined_variable\n}\nmain()",
     "respond (", "holocron xs = [1]\nrespond xs[2]", "respond 1 + \"a\""}

\* programs that do not fail
PassingTexts ==
    {"respond 1", "ability main() {\n    respond 1\n}", "holocron a = 1\nrespond a + 1"}

ProgramTexts ==
    LoopTexts \cup OtherLoopTexts \cup ShadowTexts \cup KyberTexts \cup BumpTexts
        \cup ClosureTexts \cup CalculateTexts \cup TernaryTexts \cup CommentTexts \cup LiteralTexts
        \cup EntryTexts \cup CallTexts
        \cup FailingTexts
        \cup PassingTexts

\* ForceParser.translate_to_python on each of these texts, made once
ProgramTranslations == [text \in ProgramTexts |-> translate_to_python(text)]

\* a request body that is no JSON
NotJson == "{"

\* the call self.globals['main']() of run_code, when the code has defined
\* main
MainCalled(prog, st) ==
    IF st.raised = "none" /\ "main" \in DOMAIN st.globals
    THEN Called(prog, st, Ok(st.globals["main"], 0))
    ELSE st

\* ForceRuntime.run_code(python_code) in a new ForceRuntime: compile(), exec()
\* and the call of main; what it leaves behind
RunCode(python_code) ==
    Then(CodeLines(python_code), LAMBDA prog : MainCalled(prog, ExecCode(prog)))

\* the except clauses of run_code: every exception the code raises is an
\* Exception, is reported on the output by one of the clauses, and run_code
\* returns None; without one it returns what main returned (None: no
\* function here returns a value) or its message of success
RunCodeResult(st) ==
    IF st.raised # "none" \/ "main" \in DOMAIN st.globals THEN "None"
    ELSE "Code executed successfully - The Force is strong with this one"

\* the response of handle_run after run_force_code has returned
RunResponse(python_code, st) ==
    [success |-> TRUE, sent |-> TRUE, python_code |-> python_code,
     output |-> st.out, reported |-> st.raised, result |-> RunCodeResult(st)]

\* the response of the except clause of handle_compile and handle_run
ErrorResponse(error) ==
    [success |-> FALSE, sent |-> TRUE, error |-> error]

\* ForceWebHandler.handle_compile
handle_compile(body) ==
    /\ run_request = NoRunRequest
    /\ run_request' = [path |-> "/api/compile", body |-> body]
    /\ run_response' =
          IF body = NotJson THEN ErrorResponse("Compilation error")
          ELSE [success |-> TRUE, sent |-> TRUE, python_code |-> translations[body]]
    /\ UNCHANGED <<runtime, stack_vars, queue_vars, sandbox_vars, web_vars,
                   session_vars,
                   cipher_vars, limiter_vars>>

\* the handler after run_force_code has left the runtime in the state st
Ran(body, st) ==
    /\ runtime' = st
    /\ run_response' = RunResponse(translations[body], st)

\* ForceWebHandler.handle_run
handle_run(body) ==
    /\ run_request = NoRunRequest
    /\ run_request' = [path |-> "/api/run", body |-> body]
    /\ IF body = NotJson
       THEN /\ run_response' = ErrorResponse("Execution error")
            /\ UNCHANGED runtime
       ELSE Ran(body, RunCode(translations[body]))
    /\ UNCHANGED <<stack_vars, queue_vars, sandbox_vars, web_vars, session_vars,
                   cipher_vars, limiter_vars>>

\* the server makes a new ForceWebHandler for the next request
NextHandler ==
    /\ run_request # NoRunRequest
    /\ run_request' = NoRunRequest
    /\ run_response' = NoRunResponse
    /\ runtime' = Running(<<>>, <<>>, {}, FALSE, <<>>, "none")
    /\ UNCHANGED <<stack_vars, queue_vars, sandbox_vars, web_vars, session_vars,
                   cipher_vars, limiter_vars>>

ProgramsInit ==
    /\ ProgramsAtRest
    /\ CipherAtRest
    /\ LimiterAtRest
    /\ stack = <<>> /\ stack_supplied = 0 /\ stack_popped = {} /\ stack_last = NoCall
    /\ queue = <<>> /\ queue_supplied = <<>> /\ queue_dequeued = <<>>
    /\ queue_last = NoCall
    /\ SandboxAtRest
    /\ builtins_is_module = TRUE
    /\ WebAtRest
    /\ mode = "none"
    /\ session = "none"
    /\ globals_ = [n \in Names |-> Unbound]
    /\ main_defined = "none"
    /\ last = NoInput
    /\ exit_status = 0
    /\ eof_errors = 0
    /\ translations = ProgramTranslations

ProgramsNext ==
    \/ \E body \in ProgramTexts \cup {NotJson} : handle_compile(body)
    \/ \E body \in ProgramTexts \cup {NotJson} : handle_run(body)
    \/ NextHandler

SpecPrograms == ProgramsInit /\ [][ProgramsNext]_vars

-----------------------------------------------------------------------------
(* The collections of ForceRuntime: the stack made by _force_stack         *)
(* (stack_tower) and the queue made by _force_queue (queue_line)           *)

\* the values of the items are 0 .. MaxItem
MaxItem == 1

\* a collection is made from at most MaxInitial items
MaxInitial == 2

\* a collection is given at most MaxSupplied items in all
MaxSupplied == 4

\* An entry: the value of an item, and n, the number of the item among those the
\* collection was given (the initial ones in their order, then those pushed
\* or enqueued); n tells two items of the same value apart
Entry(v, n) == [v |-> v, n |-> n]

\* what a call returns: an item, None, the collection itself, or a number
\* or a truth value
ReturnsNone == [none |-> TRUE]

ReturnsSelf == [self |-> TRUE]

Returns(x) == [result |-> x]

\* the lists of initial items a collection is made from
InitialItems ==
    UNION {{[i \in 1..n |-> Entry(f[i], i)] : f \in [1..n -> 0..MaxItem]} :
              n \in 0..MaxInitial}

\* a call of op with the argument arg on the items before, which returned
\* value
Call(op, arg, value, before) ==
    [op |-> op, arg |-> arg, value |-> value, before |-> before]

\* all but the last item
Front(items) == SubSeq(items, 1, Len(items) - 1)

\* ForceStack.push: the items after it
ForceStack_push(items, item) == Append(items, item)

\* a pop that takes the first item
ForceStack_pop_first(items) ==
    IF items = <<>> THEN [items |-> items, value |-> ReturnsNone]
    ELSE [items |-> Tail(items), value |-> Head(items)]

\* ForceStack.pop: the items after it and the value returned
ForceStack_pop(items) ==
    IF items = <<>> THEN [items |-> items, value |-> ReturnsNone]
    ELSE [items |-> Front(items), value |-> items[Len(items)]]

\* ForceStack.peek
ForceStack_peek(items) == IF items = <<>> THEN ReturnsNone ELSE items[Len(items)]

\* ForceStack.is_empty
ForceStack_is_empty(items) == Returns(Len(items) = 0)

\* ForceStack.size
ForceStack_size(items) == Returns(Len(items))

push(v) ==
    /\ stack_supplied < MaxSupplied
    /\ stack' = ForceStack_push(stack, Entry(v, stack_supplied + 1))
    /\ stack_supplied' = stack_supplied + 1
    /\ stack_last' = Call("push", Entry(v, stack_supplied + 1), ReturnsSelf, stack)
    /\ UNCHANGED <<stack_popped, queue_vars, program_vars, sandbox_vars, web_vars,
                   session_vars,
                   cipher_vars, limiter_vars>>

\* pop has returned r.value and left r.items
Popped(r) ==
    /\ stack' = r.items
    /\ stack_popped' = IF r.value = ReturnsNone THEN stack_popped
                       ELSE stack_popped \cup {r.value.n}
    /\ stack_last' = Call("pop", ReturnsNone, r.value, stack)

pop ==
    /\ Popped(ForceStack_pop(stack))
    /\ UNCHANGED <<stack_supplied, queue_vars, program_vars, sandbox_vars, web_vars,
                   session_vars,
                   cipher_vars, limiter_vars>>

\* peek, is_empty and size leave the items as they are
StackQuery(op) ==
    /\ stack_last' = Call(op, ReturnsNone,
                          CASE op = "peek" -> ForceStack_peek(stack)
                            [] op = "is_empty" -> ForceStack_is_empty(stack)
                            [] OTHER -> ForceStack_size(stack),
                          stack)
    /\ UNCHANGED <<stack, stack_supplied, stack_popped, queue_vars, program_vars,
                   sandbox_vars, web_vars, session_vars,
                   cipher_vars, limiter_vars>>

\* the other parts of the model while a stack or a queue is used
OthersAtRest ==
    /\ ProgramsAtRest
    /\ CipherAtRest
    /\ LimiterAtRest
    /\ SandboxAtRest
    /\ builtins_is_module = TRUE
    /\ WebAtRest
    /\ SessionAtRest

\* ForceRuntime._force_stack(initial_items)
StackInit ==
    /\ stack \in InitialItems
    /\ stack_supplied = Len(stack)
    /\ stack_popped = {}
    /\ stack_last = NoCall
    /\ queue = <<>> /\ queue_supplied = <<>> /\ queue_dequeued = <<>>
    /\ queue_last = NoCall
    /\ OthersAtRest

StackNext ==
    \/ \E v \in 0..MaxItem : push(v)
    \/ pop
    \/ \E op \in {"peek", "is_empty", "size"} : StackQuery(op)

SpecStack == StackInit /\ [][StackNext]_vars

\* ForceQueue.enqueue: the items after it
ForceQueue_enqueue(items, item) == Append(items, item)

\* a dequeue that takes the last item
ForceQueue_dequeue_last(items) ==
    IF items = <<>> THEN [items |-> items, value |-> ReturnsNone]
    ELSE [items |-> Front(items), value |-> items[Len(items)]]

\* ForceQueue.dequeue: the items after it and the value returned
ForceQueue_dequeue(items) ==
    IF items = <<>> THEN [items |-> items, value |-> ReturnsNone]
    ELSE [items |-> Tail(items), value |-> Head(items)]

\* ForceQueue.front
ForceQueue_front(items) == IF items = <<>> THEN ReturnsNone ELSE items[1]

\* ForceQueue.is_empty
ForceQueue_is_empty(items) == Returns(Len(items) = 0)

\* ForceQueue.size
ForceQueue_size(items) == Returns(Len(items))

enqueue(v) ==
    /\ Len(queue_supplied) < MaxSupplied
    /\ queue' = ForceQueue_enqueue(queue, Entry(v, Len(queue_supplied) + 1))
    /\ queue_supplied' = Append(queue_supplied, Entry(v, Len(queue_supplied) + 1))
    /\ queue_last' = Call("enqueue", Entry(v, Len(queue_supplied) + 1), ReturnsSelf,
                          queue)
    /\ UNCHANGED <<queue_dequeued, stack_vars, program_vars, sandbox_vars, web_vars,
                   session_vars,
                   cipher_vars, limiter_vars>>

\* dequeue has returned r.value and left r.items
Dequeued(r) ==
    /\ queue' = r.items
    /\ queue_dequeued' = IF r.value = ReturnsNone THEN queue_dequeued
                         ELSE Append(queue_dequeued, r.value)
    /\ queue_last' = Call("dequeue", ReturnsNone, r.value, queue)

dequeue ==
    /\ Dequeued(ForceQueue_dequeue(queue))
    /\ UNCHANGED <<queue_supplied, stack_vars, program_vars, sandbox_vars, web_vars,
                   session_vars,
                   cipher_vars, limiter_vars>>

\* front, is_empty and size leave the items as they are
QueueQuery(op) ==
    /\ queue_last' = Call(op, ReturnsNone,
                          CASE op = "front" -> ForceQueue_front(queue)
                            [] op = "is_empty" -> ForceQueue_is_empty(queue)
                            [] OTHER -> ForceQueue_size(queue),
                          queue)
    /\ UNCHANGED <<queue, queue_supplied, queue_dequeued, stack_vars, program_vars,
                   sandbox_vars, web_vars, session_vars,
                   cipher_vars, limiter_vars>>

\* ForceRuntime._force_queue(initial_items)
QueueInit ==
    /\ queue \in InitialItems
    /\ queue_supplied = queue
    /\ queue_dequeued = <<>>
    /\ queue_last = NoCall
    /\ stack = <<>> /\ stack_supplied = 0 /\ stack_popped = {} /\ stack_last = NoCall
    /\ OthersAtRest

QueueNext ==
    \/ \E v \in 0..MaxItem : enqueue(v)
    \/ dequeue
    \/ \E op \in {"front", "is_empty", "size"} : QueueQuery(op)

SpecQueue == QueueInit /\ [][QueueNext]_vars

-----------------------------------------------------------------------------
(* The shift cipher of ForceRuntime._force_encryption ('simple_cipher').   *)
(* A text is the sequence of the code points of its characters             *)

\* the longest text and the longest key
MaxTextLen == 2

MaxKeyLen == 26

\* ord('a') and ord('A')
ord_a == 97

ord_A == 65

\* the characters of the texts: a, g, z, A, the exclamation mark, and the
\* letters E acute and e acute
Characters == {ord_a, ord_a + 6, ord_a + 25, ord_A, 33, 201, 233}

\* str.isalpha and str.islower on one character: the letters a-z and A-Z,
\* and of the other letters the two above
str_islower(char) == char \in ord_a..(ord_a + 25) \/ char = 233

str_isalpha(char) == str_islower(char) \/ char \in ord_A..(ord_A + 25) \/ char = 201

CipherTexts == UNION {[1..n -> Characters] : n \in 0..MaxTextLen}

\* keys of every length; only the length of a key is used.  The key of
\* length 0 stands for no key as well
CipherKeys == {[i \in 1..n |-> ord_a + 10] : n \in 0..MaxKeyLen}

\* shift = len(key) if key else 3
Shift(key) == IF key # <<>> THEN Len(key) ELSE 3

\* what the loop adds to result for the character char
Shifted(char, shift) ==
    IF str_isalpha(char)
    THEN ((char - (IF str_islower(char) THEN ord_a ELSE ord_A) + shift) % 26)
            + (IF str_islower(char) THEN ord_a ELSE ord_A)
    ELSE char

\* ForceRuntime._force_encryption('simple_cipher', data, key)
simple_cipher(data, key) == [i \in 1..Len(data) |-> Shifted(data[i], Shift(key))]

CipherCall(data, key) ==
    [operation |-> "simple_cipher", data |-> data, key |-> key,
     result |-> simple_cipher(data, key)]

\* force_encrypt("simple_cipher", data, key) on a text
force_encrypt(data, key) ==
    /\ cipher_call = NoCipherCall
    /\ cipher_call' = CipherCall(data, key)
    /\ cipher_before' = NoCipherCall
    /\ UNCHANGED <<program_vars, stack_vars, queue_vars, sandbox_vars, web_vars,
                   session_vars,
                   limiter_vars>>

\* force_encrypt("simple_cipher", data, key) on what the latest call returned
force_encrypt_again(key) ==
    /\ cipher_call # NoCipherCall
    /\ cipher_before = NoCipherCall
    /\ cipher_call' = CipherCall(cipher_call.result, key)
    /\ cipher_before' = cipher_call
    /\ UNCHANGED <<program_vars, stack_vars, queue_vars, sandbox_vars, web_vars,
                   session_vars,
                   limiter_vars>>

CipherInit ==
    /\ LibraryAtRest
    /\ SandboxAtRest
    /\ builtins_is_module = TRUE
    /\ WebAtRest
    /\ SessionAtRest

CipherNext ==
    \/ \E data \in CipherTexts, key \in CipherKeys : force_encrypt(data, key)
    \/ \E key \in CipherKeys : force_encrypt_again(key)

SpecCipher == CipherInit /\ [][CipherNext]_vars

-----------------------------------------------------------------------------
(* A RateLimiter that requests share: the class of secure_force_demo.py,   *)
(* made with a config, and the class of security_improvements_demo.py,     *)
(* made with max_requests and window                                       *)

\* the quotas the limiters are made with
QuotaPerMinute == 2

QuotaPerHour == 3

\* the calls of is_allowed of the first client and of each other client, and
\* the advances of the clock
MaxLimiterCalls == 6

MaxOtherCalls == 1

MaxLimiterTicks == 3

\* the windows of secure_force_demo.py, and the default window of
\* security_improvements_demo.py, in seconds
HourWindow == 3600

MinuteWindow == 60

RateLimiter_window == 60

\* the seconds the clock advances by between two calls
ClockSteps == {30, 3540}

\* RateLimiter.__init__(config) of secure_force_demo.py
RateLimiter_init(config) ==
    [class |-> "secure_force_demo", config |-> config, requests |-> NoRequests]

\* RateLimiter.__init__(max_requests, window) of security_improvements_demo.py
SimpleRateLimiter_init(max_requests, window) ==
    [class |-> "security_improvements_demo", max_requests |-> max_requests,
     window |-> window, requests |-> NoRequests]

Limiters ==
    {RateLimiter_init([MAX_REQUESTS_PER_MINUTE |-> QuotaPerMinute,
                       MAX_REQUESTS_PER_HOUR |-> QuotaPerHour]),
     SimpleRateLimiter_init(QuotaPerMinute, RateLimiter_window)}

\* the list is_allowed assigns to self.requests[client_ip]: the times of the
\* list times that are not too old at current_time
Kept(lim, times, current_time) ==
    IF lim.class = "secure_force_demo" THEN After(times, current_time - HourWindow)
    ELSE SelectSeq(times, LAMBDA req_time : current_time - req_time < lim.window)

\* neither of the two if statements of is_allowed returns False, times being
\* self.requests[client_ip]
UnderLimits(lim, times, current_time) ==
    IF lim.class = "secure_force_demo"
    THEN /\ Len(After(times, current_time - MinuteWindow))
                < lim.config.MAX_REQUESTS_PER_MINUTE
         /\ Len(times) < lim.config.MAX_REQUESTS_PER_HOUR
    ELSE Len(times) < lim.max_requests

\* is_allowed with the checks left out
is_allowed_unchecked(lim, client_ip, current_time) ==
    [allowed |-> TRUE,
     requests |-> [lim.requests EXCEPT ![client_ip] = Append(@, current_time)]]

\* RateLimiter.is_allowed(client_ip) on the limiter lim at current_time:
\* [allowed: what it returns, requests: self.requests afterwards]
is_allowed(lim, client_ip, current_time) ==
    IF UnderLimits(lim, Kept(lim, lim.requests[client_ip], current_time), current_time)
    THEN [allowed |-> TRUE,
          requests |-> [lim.requests EXCEPT ![client_ip] =
                           Append(Kept(lim, @, current_time), current_time)]]
    ELSE [allowed |-> FALSE,
          requests |-> [lim.requests EXCEPT ![client_ip] = Kept(lim, @, current_time)]]

\* RateLimiter.get_remaining_requests(client_ip) of security_improvements_demo.py
get_remaining_requests(lim, client_ip) ==
    IF lim.max_requests - Len(lim.requests[client_ip]) > 0
    THEN lim.max_requests - Len(lim.requests[client_ip])
    ELSE 0

\* the limiter and the record of its calls after is_allowed has returned r
Allowed(client_ip, r) ==
    /\ limiter' = [limiter EXCEPT !.requests = r.requests]
    /\ limiter_admitted' =
          IF r.allowed
          THEN [limiter_admitted EXCEPT ![client_ip] = Append(@, limiter_now)]
          ELSE limiter_admitted
    /\ limiter_last' =
          [op |-> "is_allowed", client_ip |-> client_ip, time |-> limiter_now,
           returned |-> r.allowed, requests |-> limiter.requests,
           admitted |-> limiter_admitted]

\* a request calls is_allowed, and no other request calls it before it has
\* returned
call_is_allowed(client_ip) ==
    /\ limiter_threads = <<>>
    /\ limiter_calls[client_ip]
          < (IF client_ip = "10.0.0.1" THEN MaxLimiterCalls ELSE MaxOtherCalls)
    /\ limiter_calls' = [limiter_calls EXCEPT ![client_ip] = @ + 1]
    /\ Allowed(client_ip, is_allowed(limiter, client_ip, limiter_now))
    /\ UNCHANGED <<limiter_now, limiter_ticks, limiter_threads, program_vars,
                   stack_vars, queue_vars, cipher_vars, sandbox_vars, web_vars,
                   session_vars>>

\* a request calls get_remaining_requests
call_get_remaining_requests(client_ip) ==
    /\ limiter_threads = <<>>
    /\ limiter.class = "security_improvements_demo"
    /\ limiter_last' =
          [op |-> "get_remaining_requests", client_ip |-> client_ip,
           time |-> limiter_now,
           returned |-> get_remaining_requests(limiter, client_ip),
           requests |-> limiter.requests, admitted |-> limiter_admitted]
    /\ UNCHANGED <<limiter, limiter_now, limiter_admitted, limiter_calls,
                   limiter_ticks, limiter_threads, program_vars, stack_vars,
                   queue_vars, cipher_vars, sandbox_vars, web_vars, session_vars>>

\* time passes
LimiterTick(seconds) ==
    /\ limiter_ticks < MaxLimiterTicks
    /\ limiter_ticks' = limiter_ticks + 1
    /\ limiter_now' = limiter_now + seconds
    /\ UNCHANGED <<limiter, limiter_admitted, limiter_calls, limiter_last,
                   limiter_threads, program_vars, stack_vars, queue_vars,
                   cipher_vars, sandbox_vars, web_vars, session_vars>>

\* everything but the limiter is as it is made
LimiterOthersAtRest ==
    /\ ProgramsAtRest
    /\ CipherAtRest
    /\ stack = <<>> /\ stack_supplied = 0 /\ stack_popped = {} /\ stack_last = NoCall
    /\ queue = <<>> /\ queue_supplied = <<>> /\ queue_dequeued = <<>>
    /\ queue_last = NoCall
    /\ SandboxAtRest
    /\ builtins_is_module = TRUE
    /\ WebAtRest
    /\ SessionAtRest

LimiterInit ==
    /\ limiter \in Limiters
    /\ limiter_now = 0
    /\ limiter_admitted = NoRequests
    /\ limiter_calls = NoCalls
    /\ limiter_ticks = 0
    /\ limiter_last = NoLimiterCall
    /\ limiter_threads = <<>>
    /\ LimiterOthersAtRest

LimiterNext ==
    \/ \E client_ip \in ClientIPs : call_is_allowed(client_ip)
    \/ \E client_ip \in ClientIPs : call_get_remaining_requests(client_ip)
    \/ \E seconds \in ClockSteps : LimiterTick(seconds)

SpecLimiter == LimiterInit /\ [][LimiterNext]_vars

-----------------------------------------------------------------------------
(* Two requests of one caller in two threads: their calls of is_allowed on *)
(* the RateLimiter they share, statement by statement.  No statement of    *)
(* is_allowed takes a lock                                                 *)

Threads == {1, 2}

\* the caller of the two requests
Caller == "10.0.0.1"

\* a thread that has not called is_allowed yet
Idle == [pc |-> "idle", current_time |-> 0, kept |-> <<>>, returned |-> FALSE]

\* the requests on record when the two requests arrive: none, or some made
\* at time 0, up to the quota
RecordsAtArrival == {[i \in 1..n |-> 0] : n \in 0..QuotaPerMinute}

\* current_time = time.time()
read_clock(thread) ==
    /\ limiter_threads[thread].pc = "idle"
    /\ limiter_threads' =
          [limiter_threads EXCEPT ![thread] =
              [@ EXCEPT !.pc = "timed", !.current_time = limiter_now]]
    /\ UNCHANGED <<limiter, limiter_now, limiter_admitted, limiter_calls,
                   limiter_ticks, limiter_last, program_vars, stack_vars,
                   queue_vars, cipher_vars, sandbox_vars, web_vars, session_vars>>

\* the list comprehension over self.requests[client_ip]
filter_requests(thread) ==
    /\ limiter_threads[thread].pc = "timed"
    /\ limiter_threads' =
          [limiter_threads EXCEPT ![thread] =
              [@ EXCEPT !.pc = "filtered",
                        !.kept = Kept(limiter, limiter.requests[Caller],
                                      limiter_threads[thread].current_time)]]
    /\ UNCHANGED <<limiter, limiter_now, limiter_admitted, limiter_calls,
                   limiter_ticks, limiter_last, program_vars, stack_vars,
                   queue_vars, cipher_vars, sandbox_vars, web_vars, session_vars>>

\* self.requests[client_ip] = the list made
store_requests(thread) ==
    /\ limiter_threads[thread].pc = "filtered"
    /\ limiter' = [limiter EXCEPT !.requests[Caller] = limiter_threads[thread].kept]
    /\ limiter_threads' = [limiter_threads EXCEPT ![thread].pc = "stored"]
    /\ UNCHANGED <<limiter_now, limiter_admitted, limiter_calls, limiter_ticks,
                   limiter_last, program_vars, stack_vars, queue_vars, cipher_vars,
                   sandbox_vars, web_vars, session_vars>>

\* the if statements: return False, or go on
check_limits(thread) ==
    /\ limiter_threads[thread].pc = "stored"
    /\ limiter_threads' =
          [limiter_threads EXCEPT ![thread].pc =
              IF UnderLimits(limiter, limiter.requests[Caller],
                             limiter_threads[thread].current_time)
              THEN "checked" ELSE "returned"]
    /\ UNCHANGED <<limiter, limiter_now, limiter_admitted, limiter_calls,
                   limiter_ticks, limiter_last, program_vars, stack_vars,
                   queue_vars, cipher_vars, sandbox_vars, web_vars, session_vars>>

\* self.requests[client_ip].append(current_time); return True
record_request(thread) ==
    /\ limiter_threads[thread].pc = "checked"
    /\ limiter' = [limiter EXCEPT !.requests[Caller] =
                      Append(@, limiter_threads[thread].current_time)]
    /\ limiter_admitted' = [limiter_admitted EXCEPT ![Caller] =
                               Append(@, limiter_threads[thread].current_time)]
    /\ limiter_threads' =
          [limiter_threads EXCEPT ![thread] =
              [@ EXCEPT !.pc = "returned", !.returned = TRUE]]
    /\ UNCHANGED <<limiter_now, limiter_calls, limiter_ticks, limiter_last,
                   program_vars, stack_vars, queue_vars, cipher_vars, sandbox_vars,
                   web_vars, session_vars>>

ThreadsInit ==
    /\ \E lim \in Limiters, record \in RecordsAtArrival :
          /\ limiter = [lim EXCEPT !.requests[Caller] = record]
          /\ limiter_admitted = [NoRequests EXCEPT ![Caller] = record]
    /\ limiter_now = 0
    /\ limiter_calls = NoCalls
    /\ limiter_ticks = 0
    /\ limiter_last = NoLimiterCall
    /\ limiter_threads = [thread \in Threads |-> Idle]
    /\ LimiterOthersAtRest

ThreadsNext ==
    \/ \E thread \in Threads : read_clock(thread)
    \/ \E thread \in Threads : filter_requests(thread)
    \/ \E thread \in Threads : store_requests(thread)
    \/ \E thread \in Threads : check_limits(thread)
    \/ \E thread \in Threads : record_request(thread)
    \/ \E seconds \in ClockSteps : LimiterTick(seconds)

SpecLimiterThreads == ThreadsInit /\ [][ThreadsNext]_vars

-----------------------------------------------------------------------------
(* The same code under ForceRuntime.run_code and under
   SecureForceInterpreter.secure_execute *)

\* the built-in functions the code calls by name
BuiltinsCalled(prog) ==
    UNION {{prog[j].toks[k] :
               k \in {i \in 1..(Len(prog[j].toks) - 1) : prog[j].toks[i + 1] = "("}} :
           j \in 1..Len(prog)}
        \cap {"print", "len", "range"}

\* compile(python_code, '<force_code>', 'exec') and
\* exec(compiled_code, safe_globals, {}): the names the module binds go to
\* the dict given as locals, and a function it defines is called with
\* safe_globals as its globals; a built-in that __builtins__ does not hold is
\* no name
SecureExecCode(prog) ==
    IF ~Compiles(prog)
    THEN Running(<<>>, <<>>, {}, TRUE, <<>>, "SyntaxError")
    ELSE IF ~(BuiltinsCalled(prog) \subseteq
                  create_safe_environment(RuntimeGlobals).builtins)
    THEN Running(<<>>, <<>>, {}, TRUE, <<>>, "NameError")
    ELSE ExecFrom(prog, 1, Len(prog), Running(<<>>, <<>>, {}, TRUE, <<>>, "none"))

\* what secure_execute returns after the execution st
SecureResult(st) ==
    IF st.raised = "none"
    THEN [success |-> TRUE, sent |-> TRUE, output |-> st.out,
          security_status |-> "executed_safely"]
    ELSE [success |-> FALSE, sent |-> TRUE, error |-> st.raised,
          error_type |-> "runtime"]

\* SecureForceInterpreter.secure_execute(python_code)
secure_execute(python_code) ==
    Then(CodeLines(python_code), LAMBDA prog : SecureResult(SecureExecCode(prog)))

\* ForceRuntime.run_code on the translation of text, in a new ForceRuntime
call_run_code(text) ==
    /\ run_request = NoRunRequest
    /\ run_request' = [path |-> "run_code", body |-> text]
    /\ runtime' = RunCode(translations[text])
    /\ UNCHANGED <<run_response, stack_vars, queue_vars, sandbox_vars, web_vars,
                   session_vars, cipher_vars, limiter_vars>>

\* secure_execute on the code run_code has been given
call_secure_execute ==
    /\ run_request.path = "run_code"
    /\ ~run_response.sent
    /\ run_response' = secure_execute(translations[run_request.body])
    /\ UNCHANGED <<run_request, runtime, stack_vars, queue_vars, sandbox_vars,
                   web_vars, session_vars, cipher_vars, limiter_vars>>

SecureExecInit == ProgramsInit

SecureExecNext ==
    \/ \E text \in ProgramTexts : call_run_code(text)
    \/ call_secure_execute

SpecSecureExec == SecureExecInit /\ [][SecureExecNext]_vars

-----------------------------------------------------------------------------
(* Properties of the sandbox *)

\* the elements of a sequence
Elems(seq) == {seq[i] : i \in 1..Len(seq)}

\* the request has been validated
Validated == stage # "idle" /\ verdict # NoVerdict

\* static validation has rejected the source text of the request
Rejected == Validated /\ verdict.exc # "none"

\* the built-ins and Python constructs that give host process control, dynamic
\* code loading, module import, file access or network access
DeniedCapabilities ==
    {"import", "__import__", "eval", "exec", "open", "force_read_file",
     "force_write_file", "force_json", "force_http"}

\* their spellings: the Python ones and the Force keywords mapped to them
DeniedSpellings ==
    DeniedCapabilities
        \cup {keyword_map[i][1] : i \in {j \in 1..Len(keyword_map) :
                                          keyword_map[j][2] \in DeniedCapabilities}}

\* the source text uses a denied capability
InvokesDenied(code) ==
    \E w \in DeniedSpellings : Search(<<WordB, Lit(w), WordB>>, code, FALSE)

\* C2: a source text that invokes a denied capability, in its Force spelling
\* or its Python spelling, is rejected by validate_force_code with a
\* SecurityError.
C2_DeniedCapabilityRejected ==
    (Validated /\ verdict.why # "size" /\ InvokesDenied(force_code))
        => verdict.exc = "SecurityError"

\* the built-ins that read or write a file or make a network request
IOBuiltins == {"force_read_file", "force_write_file", "force_json", "force_http"}

\* C3: the environment built for a sandboxed execution holds no built-in that
\* performs file or network I/O, so that the evaluated program performs none.
C3_NoIOInEnvironment ==
    stage = "running" => safe_globals.names \cap IOBuiltins = {} /\ io_performed = {}

\* C4: for a source text that static validation rejects, translate_to_python,
\* compile and exec are not called, and the size check is the first step made
\* on any text.
C4_RejectedNeverTranslated ==
    /\ Rejected => Elems(calls) \cap {"translate_to_python", "compile", "exec"} = {}
    /\ Rejected => stage = "done" /\ result.success = FALSE
    /\ calls # <<>> => calls[1] = "size"
    /\ (Validated /\ verdict.why = "size") => calls = <<"size">>

\* a source text longer than MAX_CODE_SIZE has been turned away by
\* secure_compile_and_run after the size check alone
C4_Witness ==
    /\ stage = "done"
    /\ entry = "secure_compile_and_run"
    /\ Len(force_code) > ForceConfig_MAX_CODE_SIZE
    /\ verdict.exc = "ValueError"
    /\ calls = <<"size">>

\* C5: no evaluated program runs past the deadline, and a request whose
\* deadline has expired ends with error_type 'timeout'.
C5_DeadlineEndsInTimeout ==
    /\ stage = "running" => elapsed <= Deadline
    /\ (stage = "done" /\ alarm = "fired") => result.error_type = "timeout"

\* C6: a returned output is at most MAX_OUTPUT_SIZE characters long and
\* carries the truncation marker exactly when the captured output was longer.
C6_OutputBounded ==
    (stage = "done" /\ result.output # Absent)
        => /\ Len(result.output) <= MAX_OUTPUT_SIZE
           /\ Contains(result.output, TruncationMarker)
                 <=> Len(output_buffer) > MAX_OUTPUT_SIZE

\* the error classes of a failure of the program itself
ProgramFailureClasses == {"runtime", "compilation"}

\* C7: a rejection by static validation is reported with an error class that
\* is not one of a failure of the program itself.
C7_RejectionClassDistinct ==
    Rejected => result.error_type \notin ProgramFailureClasses

\* the nesting limit of the validator of the entry point
MaxDepthOf(e) ==
    IF e = "secure_compile_and_run" THEN SecurityValidator_MAX_DEPTH
    ELSE InputValidator_MAX_DEPTH

\* C8: for every source text validate_force_code accepts, the validator's
\* max_depth is at least the largest indent_level of the translator, which is
\* therefore within the configured maximum.
C8_ValidatorCoversTranslator ==
    (Validated /\ verdict.exc = "none")
        => /\ ValidatorMaxDepth(force_code) >= indent_top
           /\ indent_top <= MaxDepthOf(entry)

-----------------------------------------------------------------------------
(* Properties of the programs run by the web server of force_web_server.py *)

\* the handler has answered a request to run the program text
HasRun(text) ==
    run_request = [path |-> "/api/run", body |-> text] /\ run_response.sent

\* C11: the response of /api/run reports success only when the program was
\* evaluated without any error; whenever the evaluation fails, the response
\* has success = false and carries the error.
C11_SuccessOnlyWithoutError ==
    \A text \in ProgramTexts :
        HasRun(text) =>
            /\ run_response.success => runtime.raised = "none"
            /\ runtime.raised # "none" =>
                  ~run_response.success /\ "error" \in DOMAIN run_response

-----------------------------------------------------------------------------
(* Properties of the stack and the queue *)

\* the greatest number of a set of numbers
Greatest(S) == CHOOSE n \in S : \A m \in S : m <= n

\* the numbers of the items the stack held before its latest call, a pop:
\* those it was given and no earlier pop had returned
HeldBeforePop ==
    (1..stack_supplied)
        \ (stack_popped \ (IF stack_last.value = ReturnsNone THEN {}
                           ELSE {stack_last.value.n}))

\* pop returns the item given last among those not yet popped, and None
\* when there is none
PopIsLastIn ==
    stack_last.op = "pop" =>
        IF HeldBeforePop = {} THEN stack_last.value = ReturnsNone
        ELSE /\ stack_last.value # ReturnsNone
             /\ stack_last.value.n = Greatest(HeldBeforePop)

\* the size is the number of items given minus the number of items popped
SizeIsSuppliedLessPopped ==
    /\ Len(stack) = stack_supplied - Cardinality(stack_popped)
    /\ stack_last.op = "size" =>
          stack_last.value = Returns(stack_supplied - Cardinality(stack_popped))

\* a pop right after push(v) returns v and leaves the items as they were
\* before the push
PopUndoesPush ==
    stack_last.op = "push" /\ stack_last'.op = "pop" =>
        /\ stack_last'.value = stack_last.arg
        /\ stack' = stack_last.before
        /\ Len(stack') = Len(stack_last.before)

\* C12: push(v) followed by pop() returns v and leaves the stack with the
\* size and the contents it had before the push; pop always returns the
\* most recently pushed item not yet popped; the size is the number of
\* initial items plus pushes minus successful pops.
C12_StackLaw ==
    /\ [](PopIsLastIn /\ SizeIsSuppliedLessPopped)
    /\ [][PopUndoesPush]_vars

\* a pushed item has been popped while older items stay on the stack, after
\* an earlier pop
C12_Witness ==
    /\ stack_last.op = "pop"
    /\ stack_last.value # ReturnsNone
    /\ stack_last.value.n > MaxInitial
    /\ stack_last.value.n = stack_supplied
    /\ stack # <<>>
    /\ Cardinality(stack_popped) > 1

\* the item the next dequeue is to return: the first one given that no
\* dequeue has returned, or None
NextInOrder ==
    IF Len(queue_dequeued) < Len(queue_supplied)
    THEN queue_supplied[Len(queue_dequeued) + 1]
    ELSE ReturnsNone

\* the items dequeue has returned are the first of the items given,
\* in their order, and dequeue returns None only when none is left
DequeuedInOrder ==
    /\ Len(queue_dequeued) <= Len(queue_supplied)
    /\ queue_dequeued = SubSeq(queue_supplied, 1, Len(queue_dequeued))
    /\ queue_last.op = "dequeue" /\ queue_last.value = ReturnsNone =>
          Len(queue_dequeued) = Len(queue_supplied)

\* front() is the item the next dequeue is to return
FrontIsNext == queue_last.op = "front" => queue_last.value = NextInOrder

\* the size is the number of items given and not yet dequeued
SizeIsSuppliedLessDequeued ==
    /\ Len(queue) = Len(queue_supplied) - Len(queue_dequeued)
    /\ queue_last.op = "size" =>
          queue_last.value = Returns(Len(queue_supplied) - Len(queue_dequeued))

\* a dequeue right after front() returns what front() returned
DequeueReturnsFront ==
    queue_last.op = "front" /\ queue_last'.op = "dequeue" =>
        queue_last'.value = queue_last.value

\* C13: the values returned by successive dequeue calls are the initial
\* items followed by the enqueued items, in the order they were supplied;
\* front() equals the value the next dequeue() returns; the size is the
\* number of items supplied and not yet dequeued.
C13_QueueLaw ==
    /\ [](DequeuedInOrder /\ FrontIsNext /\ SizeIsSuppliedLessDequeued)
    /\ [][DequeueReturnsFront]_vars

\* an enqueued item has been dequeued after the initial ones, and items
\* enqueued later wait
C13_Witness ==
    /\ queue_last.op = "dequeue"
    /\ queue_last.value # ReturnsNone
    /\ queue_last.value.n > MaxInitial
    /\ Len(queue_dequeued) > MaxInitial
    /\ queue # <<>>

-----------------------------------------------------------------------------
(* Properties of the programs, continued: scopes, loops and calculations *)

\* name is bound to the integer n in the globals run_code left behind
GlobalIs(name, n) ==
    name \in DOMAIN runtime.globals /\ runtime.globals[name] = IntValue(n)

\* C14: a holocron declaration of x inside the body of a sense, meditate or
\* train block does not alter the x of the enclosing scope: after the block,
\* x has the value it had before the block was entered.
C14_InnerDeclarationShadows ==
    \A block \in Blocks, outer \in 0..1, inner \in 0..1 :
        HasRun(ShadowText(block, outer, inner)) =>
            GlobalIs("x", outer) /\ runtime.out = <<IntValue(outer)>>

\* C15: a constant declared with kyber is write-once: a later assignment or
\* redeclaration of its name is rejected, and the constant keeps the value
\* of its initializer for the rest of the evaluation.
C15_KyberIsWriteOnce ==
    \A rebinding \in Rebindings, first \in 0..1, second \in 0..1 :
        HasRun(KyberText(rebinding, first, second)) =>
            runtime.raised # "none" /\ GlobalIs("LIMIT", first)

\* C16: an assignment total = expr inside a function that does not declare
\* total, total being defined at top level, updates the top-level binding:
\* after the call the top level observes the new value.
C16_AssignmentUpdatesEnclosing ==
    \A outer \in 0..1, inner \in 0..1 :
        HasRun(BumpText(outer, inner)) =>
            GlobalIs("total", inner) /\ runtime.out = <<IntValue(inner)>>

\* C17: the loop variable of a counting loop is bound afresh for each
\* iteration: a closure made in the body during iteration i and called after
\* the loop observes the value of iteration i, so that the closure of the
\* first iteration gives 0 and that of the last of b iterations b - 1.
C17_LoopVariablePerIteration ==
    \A b \in 1..(MaxBound + 1) :
        HasRun(ClosureText(b)) => runtime.out = <<IntValue(0), IntValue(b - 1)>>

\* how many of s, s + k, s + 2k, ... lie below b
CountBelow(s, b, k) ==
    Cardinality({j \in 0..(MaxBound + LenOfXs + MaxNegative) : s + j * k < b})

\* C18: a counting loop from s below b in steps of k >= 1 executes its body
\* once for each of s, s + k, s + 2k, ... below b, in increasing order, and
\* not at all when s >= b; start, bound and step are evaluated once, so that
\* a body that changes the collection or assigns to i does not change the
\* iterations.
C18_CountingLoopIterations ==
    \A s \in (0 - MaxNegative)..MaxStart, b \in Bounds, k \in 1..MaxStep,
       body \in LoopBodies :
        HasRun(LoopText(s, b.text, k, body)) =>
            /\ runtime.raised = "none"
            /\ runtime.out = [j \in 1..CountBelow(s, b.value, k) |->
                                IntValue(s + (j - 1) * k)]

\* C19: a train loop whose head is not of the counting form is rejected at
\* translation time: it is not passed on, and neither endpoint reports
\* success for it.
C19_OtherLoopHeadsRejected ==
    \A head \in OtherLoopHeads :
        run_request.body = OtherLoopText(head) /\ run_response.sent =>
            ~run_response.success /\ "python_code" \notin DOMAIN run_response

\* the scope of the calculation texts: a is 1 and b is 2
CalculateScope ==
    Scope(("a" :> IntValue(1)) @@ ("b" :> IntValue(2)), <<>>, {}, FALSE, FALSE)

\* the operation named applied to the values x and y
Named(operation, x, y) ==
    BinOp(CalculateScope,
          CASE operation = "add" -> "+"
            [] operation = "subtract" -> "-"
            [] operation = "multiply" -> "*"
            [] operation = "divide" -> "/"
            [] operation = "power" -> "**"
            [] OTHER -> "%",
          x, y, 0)

\* two numbers are the same number of the same type
SameNumber(u, v) == u.t = v.t /\ u.n * Den(v) = v.n * Den(u)

\* the run has printed the value of expected, or raised what it raises
Yields(expected) ==
    IF expected.raised # "none" THEN runtime.raised = expected.raised
    ELSE /\ runtime.raised = "none"
         /\ Len(runtime.out) = 1
         /\ SameNumber(runtime.out[1], expected.v)

\* C20: force_calculate(op, x, y) yields the operation named op applied to
\* the value of x and the value of y, for any argument expressions x and y;
\* divide or modulo by zero yields a ZeroDivisionError.
C20_CalculateAppliesOperation ==
    \A operation \in Operations, x \in Operands, y \in Operands :
        HasRun(CalculateText(operation, x, y)) =>
            Yields(Named(operation, Eval(x, CalculateScope).v,
                         Eval(y, CalculateScope).v))


\* the scope of the ternary texts: no name is bound
NoNames == Scope(<<>>, <<>>, {}, FALSE, FALSE)

\* the alternative jedi_mind_trick(c, a, b) selects
Selected(c, a, b) ==
    IF Truthy(Eval(c.python, NoNames).v) THEN Eval(a.python, NoNames)
    ELSE Eval(b.python, NoNames)

\* C21: jedi_mind_trick(c, a, b) evaluates to a when c is truthy and to b
\* otherwise, for nested argument expressions too: an argument that itself
\* contains a comma or parentheses (a call with several arguments, a list, a
\* nested jedi_mind_trick) is taken whole.
C21_TernarySelects ==
    \A c \in Conditions, a \in Alternatives, b \in Alternatives :
        HasRun(TernaryText(c, a, b)) => Yields(Selected(c, a, b))

\* the markers of comments
CommentMarkers == {"//", "/*", "*/"}

\* the handler has answered a request, on either path, with the translation
\* of text
HasTranslated(text) ==
    run_request.body = text /\ run_response.sent /\ "python_code" \in DOMAIN run_response

\* C22: every comment of the source is removed completely by translation:
\* each line comment (from // to the end of the line) and each block comment
\* (from /* to the next */, on one line or several, with or without // in
\* it) is stripped, so that the translation has none of the markers //, /*
\* and */ that belonged to a comment, and the statements around the comments
\* are executed.
C22_CommentsRemoved ==
    \A comment \in Comments, tail \in Tails :
        /\ HasTranslated(CommentText(comment, tail)) =>
              \A marker \in CommentMarkers : ~Contains(run_response.python_code, marker)
        /\ HasRun(CommentText(comment, tail)) =>
              /\ runtime.raised = "none"
              /\ runtime.out = <<IntValue(1), IntValue(2)>>

\* the shifts of the two keys are complements modulo 26
Complementary(key, other) == (Shift(key) + Shift(other)) % 26 = 0

\* C23: the shift cipher is reversible: for a fixed key no other text has
\* the same output, the output has the length, the letter case and every
\* non-alphabetic character of the input, and applying the cipher again with
\* a key whose shift is the complement modulo 26 returns the original text,
\* for every text, those with letters outside a-z and A-Z included.
C23_CipherReversible ==
    cipher_call # NoCipherCall =>
        /\ \A text \in CipherTexts :
              text # cipher_call.data =>
                  simple_cipher(text, cipher_call.key) # cipher_call.result
        /\ Len(cipher_call.result) = Len(cipher_call.data)
        /\ \A i \in 1..Len(cipher_call.data) :
              IF str_isalpha(cipher_call.data[i])
              THEN /\ str_isalpha(cipher_call.result[i])
                   /\ str_islower(cipher_call.result[i]) = str_islower(cipher_call.data[i])
              ELSE cipher_call.result[i] = cipher_call.data[i]
        /\ cipher_before # NoCipherCall
              /\ Complementary(cipher_before.key, cipher_call.key) =>
                  cipher_call.result = cipher_before.data

\* how many of the times lie in the seconds before instant, instant included
CountIn(times, seconds, instant) ==
    Len(SelectSeq(times, LAMBDA t : t > instant - seconds /\ t <= instant))

\* the quotas of the limiter: at most quota calls in any window of seconds
QuotasOf(lim) ==
    IF lim.class = "secure_force_demo"
    THEN {[seconds |-> MinuteWindow, quota |-> lim.config.MAX_REQUESTS_PER_MINUTE],
          [seconds |-> HourWindow, quota |-> lim.config.MAX_REQUESTS_PER_HOUR]}
    ELSE {[seconds |-> lim.window, quota |-> lim.max_requests]}

\* one of the quotas is reached by the admitted calls times at instant
QuotaReached(lim, times, instant) ==
    \E q \in QuotasOf(lim) : CountIn(times, q.seconds, instant) >= q.quota

\* the instants at which a window is fullest: now, and the times of the
\* admitted calls
Instants(client_ip) ==
    {limiter_now} \cup {limiter_admitted[client_ip][i] :
                            i \in 1..Len(limiter_admitted[client_ip])}

\* C24: is_allowed keeps a sliding window per caller: for every caller and
\* every instant, the admitted calls in the 60 seconds before it are at most
\* MAX_REQUESTS_PER_MINUTE (max_requests per window in the simple limiter)
\* and those in the 3600 seconds before it at most MAX_REQUESTS_PER_HOUR;
\* is_allowed returns False exactly when one of the quotas is reached
\* already; and a call for one caller leaves the record of the others as it
\* is.
C24_SlidingWindow ==
    /\ \A client_ip \in ClientIPs, q \in QuotasOf(limiter) :
          \A instant \in Instants(client_ip) :
              CountIn(limiter_admitted[client_ip], q.seconds, instant) <= q.quota
    /\ limiter_last.op = "is_allowed" =>
          /\ ~limiter_last.returned <=>
                QuotaReached(limiter, limiter_last.admitted[limiter_last.client_ip],
                             limiter_last.time)
          /\ \A client_ip \in ClientIPs \ {limiter_last.client_ip} :
                /\ limiter.requests[client_ip] = limiter_last.requests[client_ip]
                /\ limiter_admitted[client_ip] = limiter_last.admitted[client_ip]

\* a call is refused for the quota of the hour alone, while another caller
\* has a request on record
C24_Witness ==
    /\ limiter.class = "secure_force_demo"
    /\ limiter_last.op = "is_allowed"
    /\ ~limiter_last.returned
    /\ CountIn(limiter_last.admitted[limiter_last.client_ip], MinuteWindow,
               limiter_last.time) < limiter.config.MAX_REQUESTS_PER_MINUTE
    /\ \E client_ip \in ClientIPs \ {limiter_last.client_ip} :
          limiter.requests[client_ip] # <<>>

\* how many times the time t stands in times
Occurrences(times, t) == Len(SelectSeq(times, LAMBDA req_time : req_time = t))

\* C25: when two requests of one caller call is_allowed on the RateLimiter
\* they share, with their prune, check and record steps interleaved, the
\* quota still holds (with one slot left in the window at most one of the two
\* is admitted), and no timestamp of an admitted request that is still in
\* the window is lost from the record by the pruning of the other call.
C25_QuotaHoldsInThreads ==
    /\ \A q \in QuotasOf(limiter), instant \in Instants(Caller) :
          CountIn(limiter_admitted[Caller], q.seconds, instant) <= q.quota
    /\ \A instant \in Instants(Caller) :
          Occurrences(Kept(limiter, limiter_admitted[Caller], limiter_now), instant)
              <= Occurrences(limiter.requests[Caller], instant)

\* C26: within one evaluation every statement of the program is executed
\* exactly once, in program order: a program that defines main and invokes
\* it once runs the body of main exactly once, and a program that defines
\* main without invoking it does not run it.
C26_StatementsOnce ==
    \A value \in EntryValues, invoked \in BOOLEAN :
        HasRun(EntryText(value, invoked)) =>
            /\ runtime.raised = "none"
            /\ runtime.out = IF invoked THEN <<IntValue(value)>> ELSE <<>>

\* C27: the interactive session terminates when its input ends: when reading
\* the next line raises end-of-input, the loop reaches Terminated instead of
\* reporting the error and asking for input again; and after the exit()
\* directive no further input is evaluated.
C27_EndOfInputTerminates ==
    [][/\ eof_errors' # eof_errors => session' = "terminated"
       /\ (mode = "interactive" /\ session = "terminated") =>
              /\ session' = "terminated"
              /\ last' = last
              /\ globals_' = globals_]_vars

\* C28: the contents of a string literal reach the executed program
\* unchanged: translation rewrites nothing between the quotes of a single-
\* or double-quoted literal, so that a literal whose text contains a keyword
\* of the language, a comment marker or a bracket pattern is output character
\* for character as written.
C28_LiteralsUnchanged ==
    \A quote \in Quotes, contents \in LiteralContents :
        HasRun(LiteralText(quote, contents)) =>
            /\ runtime.raised = "none"
            /\ runtime.out = <<StrValue(contents)>>

\* both run_code and secure_execute have been given the translation of text
HasRunBoth(text) ==
    run_request = [path |-> "run_code", body |-> text] /\ run_response.sent

\* C29: sandboxed execution refines trusted execution for allowed programs:
\* every program that calls only allow-listed built-ins and completes without
\* error under run_code also completes successfully under secure_execute,
\* a program in which one function calls another function, or itself,
\* defined at top level included.
C29_SandboxRefinesTrusted ==
    \A text \in ProgramTexts :
        (/\ HasRunBoth(text)
         /\ BuiltinsCalled(CodeLines(translations[text]))
                \subseteq ForceSecurityConfig_SAFE_BUILTINS
         /\ runtime.raised = "none") =>
            run_response.success

\* C30: a caller that is refused always recovers: a call that is_allowed
\* refuses records no timestamp, so that refused calls do not prolong the
\* block; once enough admitted timestamps have left the window the next call
\* of the caller is admitted; and get_remaining_requests(caller) is greater
\* than 0 exactly when a call of is_allowed by the caller at that moment
\* would be admitted.
C30_RefusedCallerRecovers ==
    /\ limiter_last.op = "is_allowed" /\ ~limiter_last.returned =>
          /\ limiter_admitted = limiter_last.admitted
          /\ limiter.requests[limiter_last.client_ip]
                = Kept(limiter, limiter_last.requests[limiter_last.client_ip],
                       limiter_last.time)
    /\ limiter_last.op = "is_allowed"
          /\ ~QuotaReached(limiter, limiter_last.admitted[limiter_last.client_ip],
                           limiter_last.time) =>
          limiter_last.returned
    /\ limiter_last.op = "get_remaining_requests" =>
          (limiter_last.returned > 0
              <=> is_allowed(limiter, limiter_last.client_ip, limiter_last.time).allowed)

=============================================================================
